---------------------------- MODULE Spec2Model ----------------------------
(***************************************************************************)
(* Model of the hybrid target-discovery engine of GDPR_cookies_extractor   *)
(* (analysis/privacy_analyzers.py, class PrivacyAnalyzer).                 *)
(*                                                                         *)
(* A Python string is a sequence of atoms (an atom stands for one or more  *)
(* characters that never need to be split in the modelled inputs), so that *)
(* Python's substring test, lower(), split() and urljoin() are computed    *)
(* and not assumed.  Python's None is the one-atom string NoneVal, which   *)
(* no input contains.                                                      *)
(***************************************************************************)
EXTENDS Integers, Sequences, FiniteSets, TLC

\* ------------------------------------------------------------------------
\* Bounds of the model
\* ------------------------------------------------------------------------

\* Longest list of anchors a modelled page carries.
MaxLinks == 2

\* ------------------------------------------------------------------------
\* Strings
\* ------------------------------------------------------------------------

NoneVal == <<"<None>">>

\* Python truthiness of an optional string: None and "" are falsy.
Truthy(s) == s # NoneVal /\ s # <<>>

OriginA == "https://a.com"
OriginEvil == "https://evil.test"
OriginWww == "https://www.a.com"
OriginSub == "https://sub.a.com"
OriginNotA == "https://nota.com"
Origins == {OriginA, OriginEvil, OriginWww, OriginSub, OriginNotA}

\* A URL scheme that takes no host, as the first atom of a URL.
Schemes == {"mailto:"}

\* str.lower() on one atom: the atoms with an upper-case letter.
LowerAtom(a) ==
    CASE a = "Cookie" -> "cookie"
      [] a = "Policy" -> "policy"
      [] a = ".PDF" -> ".pdf"
      [] a = "Sitemap" -> "sitemap"
      [] OTHER -> a

\* str.lower()
Lower(s) == [i \in 1..Len(s) |-> LowerAtom(s[i])]

\* The number of characters an atom stands for.
AtomLen(a) ==
    CASE a = "https://a.com" -> 13
      [] a \in {"https://evil.test", "https://www.a.com", "https://sub.a.com"} -> 17
      [] a = "https://nota.com" -> 16
      [] a \in {"/", " ", "#", "?"} -> 1
      [] a \in {"cookie", "Cookie", "policy", "Policy"} -> 6
      [] a \in {"legal", "about"} -> 5
      [] a = "privacy" -> 7
      [] a = "fake" -> 4

\* len(s) for a string
RECURSIVE StrLen(_)
StrLen(s) == IF s = <<>> THEN 0 ELSE AtomLen(Head(s)) + StrLen(Tail(s))

\* Python's  sub in s  for strings: sub occurs as a contiguous slice of s.
IsSubstr(sub, s) ==
    \E i \in 0..(Len(s) - Len(sub)) :
        \A j \in 1..Len(sub) : s[i + j] = sub[j]

\* All non-empty contiguous slices of s.
Slices(s) ==
    {SubSeq(s, i, j) : i \in 1..Len(s), j \in 1..Len(s)} \ {<<>>}

\* str.split(): the maximal runs of non-blank atoms, as a set (the callers
\* only quantify over the words).
Words(s) ==
    {SubSeq(s, i, j) : i \in 1..Len(s), j \in 1..Len(s)} \cap
    {SubSeq(s, i, j) : i \in {a \in 1..Len(s) : a = 1 \/ s[a - 1] = " "},
                       j \in {b \in 1..Len(s) : b = Len(s) \/ s[b + 1] = " "}} \cap
    {w \in Slices(s) : \A k \in 1..Len(w) : w[k] # " "}

\* Index of the last "/" of s at or after position 2, or 1 if there is none
\* (position 1 is the origin atom of an absolute URL).
RECURSIVE LastSlash(_, _)
LastSlash(s, i) ==
    IF i <= 1 THEN 1
    ELSE IF s[i] = "/" THEN i
    ELSE LastSlash(s, i - 1)

\* urllib.parse.urljoin(base, ref) for an absolute base without query or
\* fragment: an absolute ref replaces the base, an empty ref keeps it, a
\* fragment is appended to it, a ref starting with "/" keeps only the base's
\* origin, any other ref replaces the base's last segment.
urljoin(base, ref) ==
    IF ref = <<>> THEN base
    ELSE IF ref[1] \in Origins \cup Schemes THEN ref
    ELSE IF ref[1] = "#" THEN base \o ref
    ELSE IF ref[1] = "/" THEN <<base[1]>> \o ref
    ELSE IF LastSlash(base, Len(base)) = 1 THEN <<base[1], "/">> \o ref
    ELSE SubSeq(base, 1, LastSlash(base, Len(base))) \o ref

\* ------------------------------------------------------------------------
\* Keyword filter and heuristic scorer
\* ------------------------------------------------------------------------

\* Python's None where a list is expected.
NoList == <<NoneVal>>

\* A link object {"href": ..., "text": ...}.
Link(h, t) == [href |-> h, text |-> t]

\* The hrefs of a list of link objects.
Hrefs(links) == {links[i].href : i \in 1..Len(links)}

\* Variant of IsPromising that compares the keyword as written, without
\* lower-casing it.
IsPromisingKeywordAsIs(link, filter_keywords) ==
    \E k \in 1..Len(filter_keywords) :
        IsSubstr(filter_keywords[k],
                 Lower(link.href) \o <<" ">> \o Lower(link.text))

\* The test of one link in _filter_promising_links.
IsPromising(link, filter_keywords) ==
    \E k \in 1..Len(filter_keywords) :
        IsSubstr(Lower(filter_keywords[k]),
                 Lower(link.href) \o <<" ">> \o Lower(link.text))

\* _filter_promising_links
filter_promising_links(all_links, filter_keywords) ==
    IF filter_keywords \in {<<>>, NoList} THEN <<>>
    ELSE SelectSeq(all_links, LAMBDA link : IsPromising(link, filter_keywords))

\* all(word in s.lower() for word in required_words)
AllWordsIn(keyword, s) ==
    \A w \in Words(Lower(keyword)) : IsSubstr(w, Lower(s))

\* The inner loop of _get_best_candidate: the score of one link, summed over
\* the keywords from index i (1-based) on.
RECURSIVE ScoreFrom(_, _, _)
\* Variant of ScoreFrom with the two bonuses exchanged: a match in the href
\* counts double, a match in the anchor text once.
RECURSIVE ScoreFromHrefDouble(_, _, _)
ScoreFromHrefDouble(link, kws, i) ==
    IF i > Len(kws) THEN 0
    ELSE LET weight == Len(kws) - (i - 1)
         IN  (IF AllWordsIn(kws[i], link.text) THEN weight ELSE 0)
           + (IF AllWordsIn(kws[i], link.href) THEN weight * 2 ELSE 0)
           + ScoreFromHrefDouble(link, kws, i + 1)

ScoreFrom(link, kws, i) ==
    IF i > Len(kws) THEN 0
    ELSE LET weight == Len(kws) - (i - 1)
         IN  (IF AllWordsIn(kws[i], link.text) THEN weight * 2 ELSE 0)
           + (IF AllWordsIn(kws[i], link.href) THEN weight ELSE 0)
           + ScoreFrom(link, kws, i + 1)

LinkScore(link, kws) == ScoreFrom(link, kws, 1)

\* The outer loop of _get_best_candidate from link k on, carrying
\* best_link_href and max_score.
RECURSIVE BestFrom(_, _, _, _, _)
\* Variant of BestFrom that keeps the anchor text of the best link instead
\* of its href.
RECURSIVE BestFromText(_, _, _, _, _)
BestFromText(links, kws, k, best, max) ==
    IF k > Len(links) THEN best
    ELSE LET cur == LinkScore(links[k], kws)
         IN  IF cur > max
             THEN BestFromText(links, kws, k + 1, links[k].text, cur)
             ELSE IF cur = max /\ Truthy(best)
                                /\ StrLen(links[k].text) < StrLen(best)
             THEN BestFromText(links, kws, k + 1, links[k].text, max)
             ELSE BestFromText(links, kws, k + 1, best, max)

\* Variant of BestFrom without the tie-breaker: among equal scores the
\* first candidate stays.
RECURSIVE BestFromFirstWins(_, _, _, _, _)
BestFromFirstWins(links, kws, k, best, max) ==
    IF k > Len(links) THEN best
    ELSE LET cur == LinkScore(links[k], kws)
         IN  IF cur > max
             THEN BestFromFirstWins(links, kws, k + 1, links[k].href, cur)
             ELSE BestFromFirstWins(links, kws, k + 1, best, max)

BestFrom(links, kws, k, best, max) ==
    IF k > Len(links) THEN best
    ELSE LET cur == LinkScore(links[k], kws)
         IN  IF cur > max
             THEN BestFrom(links, kws, k + 1, links[k].href, cur)
             ELSE IF cur = max /\ Truthy(best)
                                /\ StrLen(links[k].href) < StrLen(best)
             THEN BestFrom(links, kws, k + 1, links[k].href, max)
             ELSE BestFrom(links, kws, k + 1, best, max)

\* _get_best_candidate
get_best_candidate(promising_links, keyword_priority_list) ==
    IF promising_links \in {<<>>, NoList}
          \/ keyword_priority_list \in {<<>>, NoList} THEN NoneVal
    ELSE BestFrom(promising_links, keyword_priority_list, 1, NoneVal, -1)

\* ------------------------------------------------------------------------
\* Inputs of a sub-target run
\* ------------------------------------------------------------------------

\* The four sub-target searches: find_cookie_declaration_page,
\* find_data_retention_page, find_data_deletion_page, find_dpo_page.
Targets == {"cookie_declaration", "data_retention", "data_deletion", "dpo"}

\* The cookie search keeps no summary; the other three carry the
\* classifier's summary under their own key.
HasSummary(t) == t # "cookie_declaration"

\* A dictionary key that is not present.
NoKey == <<"<absent>">>

SeedUrl == <<OriginA, "/", "privacy">>

\* The privacy_policy_url argument: None, "" or the URL found earlier.
SeedArgs == {NoneVal, <<>>, SeedUrl}

\* search_keywords_config.get(<target>, []): missing, one phrase, or two
\* phrases in priority order.
KeywordProfiles ==
    { <<>>,
      << <<"cookie">> >>,
      << <<"cookie", " ", "policy">>, <<"legal">> >> }

\* The anchors a seed page may carry, already resolved and internal.
LinkUniverse ==
    { Link(<<OriginA, "/", "cookie">>, <<"Cookie", " ", "Policy">>),
      Link(<<OriginA, "/", "legal", "/", "cookie">>, <<"legal">>),
      Link(<<OriginA, "/", "privacy">>, <<"cookie">>),
      Link(<<OriginA, "/", "about">>, <<"about">>) }

\* What _extract_all_internal_links can return for a page: lists of at
\* most MaxLinks links with pairwise distinct hrefs.
LinkLists ==
    UNION { {l \in [1..n -> LinkUniverse] :
                \A i, j \in 1..n : i # j => l[i].href # l[j].href}
            : n \in 0..MaxLinks }

\* An LLMResponse to an embedded-content question, or the call raising.
\* kind "none" is the value before any call.
EmbResp(k, ok, f, r, sm, err) ==
    [kind |-> k, success |-> ok, found |-> f, reasoning |-> r, summary |-> sm,
     error |-> err]

NoEmbResp == EmbResp("none", FALSE, FALSE, NoneVal, NoneVal, NoneVal)
EmbRaise == EmbResp("raise", FALSE, FALSE, NoneVal, NoneVal, NoneVal)
EmbFail == EmbResp("resp", FALSE, FALSE, NoneVal, NoneVal, <<"error">>)
EmbNeg(stage) ==
    EmbResp("resp", TRUE, FALSE, <<"not found", stage>>, <<"summary", stage>>,
            NoneVal)
EmbPos(stage) ==
    EmbResp("resp", TRUE, TRUE, <<"found", stage>>, <<"summary", stage>>,
            NoneVal)

EmbeddedResponses(stage) == {EmbRaise, EmbFail, EmbNeg(stage), EmbPos(stage)}

\* An LLMResponse to a link-selection question, or the call raising.
SelResp(k, ok, l) == [kind |-> k, success |-> ok, link |-> l]

NoSelResp == SelResp("none", FALSE, NoneVal)
SelRaise == SelResp("raise", FALSE, NoneVal)
SelFail == SelResp("resp", FALSE, NoneVal)

\* A URL the page does not link to.
ForeignUrl == <<OriginEvil, "/", "fake">>

\* What the classifier may name: nothing, the empty string, a candidate, a
\* part of a candidate, or a URL of its own.
LinkChoices(candidates) ==
    {NoneVal, <<>>, ForeignUrl} \cup UNION {Slices(h) : h \in Hrefs(candidates)}

SelectionResponses(candidates) ==
    {SelRaise, SelFail} \cup {SelResp("resp", TRUE, l) : l \in LinkChoices(candidates)}

\* ------------------------------------------------------------------------
\* Classifier wrappers and results
\* ------------------------------------------------------------------------

\* Variant of ask_llm_about_declaration that takes a failed query for a
\* positive verdict.
ask_llm_fail_open(response) ==
    [found |-> ~response.success \/ response.found,
     reasoning |-> response.reasoning,
     summary |-> response.summary]

\* _ask_llm_about_cookie_declaration and its three siblings: a failed
\* query becomes the verdict "not found".
ask_llm_about_declaration(response) ==
    IF ~response.success
    THEN [found |-> FALSE,
          reasoning |-> <<"LLM query failed: ">> \o response.error,
          summary |-> NoneVal]
    ELSE [found |-> response.found,
          reasoning |-> response.reasoning,
          summary |-> response.summary]

\* _extract_cookie_link_from_html and its three siblings: a failed query
\* becomes the choice None.
extract_link_from_html(response) ==
    IF ~response.success THEN NoneVal ELSE response.link

\* A result dictionary: the url, the reasoning (a tag and the text or URL it
\* embeds) and the summary (NoKey where the dictionary has no such key).
Result(u, tag, arg, sm) ==
    [url |-> u, reasoning |-> [tag |-> tag, arg |-> arg], summary |-> sm]

\* Python's None where a result dictionary is expected.
NoResult == Result(NoneVal, "<None>", <<>>, NoneVal)

NotFound(tag, arg) == Result(NoneVal, tag, arg, NoKey)

\* ------------------------------------------------------------------------
\* State of one sub-target run
\* ------------------------------------------------------------------------

VARIABLES
    pc,                  \* the statement the run is at
    visited,             \* the statements the run has been at
    target,              \* which of the four searches this is
    privacy_policy_url,  \* the seed page argument
    keywords,            \* the target's keyword list from the configuration
    page,                \* the seed page: "none", "open" or "closed"
    validation_page,     \* the candidate page: "none", "open" or "closed"
    stage1_result,       \* the embedded result, NoResult while None
    promising,           \* promising_links_objects
    page_content,        \* innerText of the seed page, NoneVal before it is read
    validation_content,  \* innerText of the candidate page, likewise
    llm_chosen_link,     \* the classifier's choice in Stage 2
    final_candidate_url, \* the link Stage 2 selected
    full_candidate_url,  \* urljoin(privacy_policy_url, final_candidate_url)
    retval,              \* the value of the return statement that ran
    result,              \* what the caller received
    raised,              \* whether an exception reached the caller
    failed_at,           \* the statement whose exception the except clause caught
    navigated,           \* the URLs passed to page.goto, in order
    calls,               \* the classifier calls made, in order
    resp                 \* the response received at each stage

run_vars == <<pc, visited, target, privacy_policy_url, keywords, page,
              validation_page, stage1_result, promising, page_content,
              validation_content, llm_chosen_link, final_candidate_url,
              full_candidate_url, retval, result, raised, failed_at,
              navigated, calls, resp>>

\* The arguments of the call: never assigned.
args == <<target, privacy_policy_url, keywords>>

\* ------------------------------------------------------------------------
\* State outside one run: the Discovery Coordinator and its four tasks
\* ------------------------------------------------------------------------

VARIABLES
    tasks,          \* the coordinator's four sub-target tasks, by target
    open_pages,     \* the pages open in the shared browser context
    site_analysis,  \* the coordinator's position and the results it recorded
    dump_folder     \* the files of the site's dump folder, with their writers

coord_vars == <<tasks, open_pages, site_analysis, dump_folder>>

\* The arguments and the return values of the helper functions when they
\* are called on their own.
VARIABLES
    h_links,        \* the list of link objects passed in
    h_keywords,     \* the keyword list passed in
    h_filtered,     \* what _filter_promising_links returned
    h_winner,       \* what _get_best_candidate returned
    h_applied       \* which of the two have been called

heur_vars == <<h_links, h_keywords, h_filtered, h_winner, h_applied>>

\* The argument and the return value of _extract_all_internal_links when it
\* is called on its own.
VARIABLES
    x_page_url,     \* page.url
    x_anchors,      \* the page's <a> elements in document order
    x_query,        \* whether page.query_selector_all('a') returns or raises
    x_links,        \* the list the function returned
    x_raised,       \* whether the function raised instead
    x_applied       \* whether the function has been called

extract_vars == <<x_page_url, x_anchors, x_query, x_links, x_raised, x_applied>>

\* One call of OllamaProvider.query_json.
VARIABLES
    q_chat,         \* whether self.client.chat returns or raises
    q_content,      \* response['message']['content']
    q_response,     \* what query_json returned, or RaiseVal if it raised
    q_applied       \* whether query_json has been called

query_vars == <<q_chat, q_content, q_response, q_applied>>

\* One call of find_privacy_policy.
VARIABLES
    p_site_url,     \* the site_url argument
    p_keywords,     \* the filter_keywords argument
    p_env,          \* what the page and the classifier give during the call
    p_pc,           \* the statement the call is at
    p_page,         \* initial_page: "none", "open" or "closed"
    p_candidates,   \* promising_links_objects of the entry page
    p_asked,        \* whether the classifier has been called
    p_initial,      \* initial_result
    p_result        \* the dictionary find_privacy_policy returned

policy_vars == <<p_site_url, p_keywords, p_env, p_pc, p_page, p_candidates,
                 p_asked, p_initial, p_result>>

\* One call of scraper.extract_links.
VARIABLES
    s_page_url,     \* the page_url argument
    s_content,      \* whether page.content() returns or raises
    s_base,         \* the href of the page's <base> tag, NoneVal without one
    s_hrefs,        \* the href attributes of the page's <a href> elements
    s_links,        \* the set of links returned
    s_applied       \* whether extract_links has been called

scraper_vars == <<s_page_url, s_content, s_base, s_hrefs, s_links, s_applied>>

\* main_async: the rows of the input, the row and the scenario being
\* processed, the statement reached, the pages of the browser that belong to
\* the pair being processed and the number left open by the pairs before it,
\* the exception caught, and the results list.
VARIABLES
    m_sites, m_index, m_scenario, m_pc, m_open, m_left_open, m_error,
    m_results

main_vars == <<m_sites, m_index, m_scenario, m_pc, m_open, m_left_open,
               m_error, m_results>>

\* get_sitemap_urls: the site's robots.txt and sitemaps, the statement
\* reached, the queue, the visited set, the URLs fetched so far, whether the
\* default location was queued, and the page URLs found.
VARIABLES
    sm_robots, sm_web, sm_pc, sitemap_urls_to_process, visited_sitemaps,
    sm_fetched, sm_default, final_urls

sitemap_vars == <<sm_robots, sm_web, sm_pc, sitemap_urls_to_process,
                  visited_sitemaps, sm_fetched, sm_default, final_urls>>

\* The state no step of a single run assigns.
outside == <<coord_vars, heur_vars, extract_vars, query_vars, policy_vars,
             scraper_vars, main_vars, sitemap_vars>>

\* The state no step of the coordinator or of its tasks assigns.
not_coord == <<run_vars, heur_vars, extract_vars, query_vars, policy_vars,
               scraper_vars, main_vars, sitemap_vars>>

\* The state no call of the filter or the scorer assigns.
not_heur == <<run_vars, coord_vars, extract_vars, query_vars, policy_vars,
              scraper_vars, main_vars, sitemap_vars>>

\* The state no call of the link extraction assigns.
not_extract == <<run_vars, coord_vars, heur_vars, query_vars, policy_vars,
                 scraper_vars, main_vars, sitemap_vars>>

\* The state no call of query_json assigns.
not_query == <<run_vars, coord_vars, heur_vars, extract_vars, policy_vars,
               scraper_vars, main_vars, sitemap_vars>>

\* The state no step of find_privacy_policy assigns.
not_policy == <<run_vars, coord_vars, heur_vars, extract_vars, query_vars,
                scraper_vars, main_vars, sitemap_vars>>

\* The state no call of extract_links assigns.
not_scraper == <<run_vars, coord_vars, heur_vars, extract_vars, query_vars,
                 policy_vars, main_vars, sitemap_vars>>

\* The state no step of main_async assigns.
not_main == <<run_vars, coord_vars, heur_vars, extract_vars, query_vars,
              policy_vars, scraper_vars, sitemap_vars>>

\* The state no step of get_sitemap_urls assigns.
not_sitemap == <<run_vars, coord_vars, heur_vars, extract_vars, query_vars,
                 policy_vars, scraper_vars, main_vars>>

\* No query_json is being called on its own.
QueryIdle ==
    /\ q_chat = "ok"
    /\ q_content = <<>>
    /\ q_response = [pending |-> TRUE]
    /\ q_applied = FALSE

\* The dictionary privacy-policy discovery returns; NoKey for a key it
\* does not have.
PolicyOutput(url, reasoning, confidence, bonus) ==
    [privacy_policy_url |-> url, reasoning |-> reasoning,
     confidence_score |-> confidence, keyword_bonus |-> bonus]

\* initial_result = None
NoPolicyOutput == PolicyOutput(NoKey, NoKey, NoKey, NoKey)

\* No privacy-policy discovery is being followed.
PolicyIdle ==
    /\ p_site_url = <<>>
    /\ p_keywords = <<>>
    /\ p_env = <<>>
    /\ p_pc = "idle"
    /\ p_page = "none"
    /\ p_candidates = <<>>
    /\ p_asked = FALSE
    /\ p_initial = NoPolicyOutput
    /\ p_result = NoPolicyOutput

\* No extract_links is being called on its own.
ScraperIdle ==
    /\ s_page_url = <<>>
    /\ s_content = "ok"
    /\ s_base = NoneVal
    /\ s_hrefs = <<>>
    /\ s_links = {}
    /\ s_applied = FALSE

\* main_async is not running.
MainIdle ==
    /\ m_sites = <<>>
    /\ m_index = 0
    /\ m_scenario = 0
    /\ m_pc = "idle"
    /\ m_open = {}
    /\ m_left_open = 0
    /\ m_error = NoneVal
    /\ m_results = <<>>

\* get_sitemap_urls is not running.
SitemapIdle ==
    /\ sm_robots = [fetched |-> FALSE, lines |-> <<>>]
    /\ sm_web = <<>>
    /\ sm_pc = "idle"
    /\ sitemap_urls_to_process = <<>>
    /\ visited_sitemaps = {}
    /\ sm_fetched = <<>>
    /\ sm_default = FALSE
    /\ final_urls = {}

\* No link extraction is being called on its own.
ExtractIdle ==
    /\ x_page_url = <<>>
    /\ x_anchors = <<>>
    /\ x_query = "ok"
    /\ x_links = <<>>
    /\ x_raised = FALSE
    /\ x_applied = FALSE

\* No helper function is being called on its own.
HeurIdle ==
    /\ h_links = <<>>
    /\ h_keywords = <<>>
    /\ h_filtered = <<>>
    /\ h_winner = NoneVal
    /\ h_applied = {}

\* One task of the coordinator: where the run is suspended, the outcomes its
\* awaits have had so far, whether stage1_result is set, the value of the
\* return statement that ran, and whether an exception left the run.
Task(pc_, hist_, s1_, ret_, raised_) ==
    [pc |-> pc_, hist |-> hist_, s1 |-> s1_, ret |-> ret_, raised |-> raised_]

IdleTask == Task("idle", <<>>, FALSE, "none", FALSE)

\* No coordinator is running.
CoordIdle ==
    /\ tasks = [t \in Targets |-> IdleTask]
    /\ open_pages = {}
    /\ site_analysis = [status |-> "idle", results |-> <<>>]
    /\ dump_folder = {}

\* What innerText can be: no text, or some.
PageTexts == {<<>>, <<"text">>}

\* The locals of a run at its first statement.
RunFresh ==
    /\ pc = "start"
    /\ visited = {"start"}
    /\ page = "none"
    /\ validation_page = "none"
    /\ stage1_result = NoResult
    /\ promising = <<>>
    /\ page_content = NoneVal
    /\ validation_content = NoneVal
    /\ llm_chosen_link = NoneVal
    /\ final_candidate_url = NoneVal
    /\ full_candidate_url = NoneVal
    /\ retval = NoResult
    /\ result = NoResult
    /\ raised = FALSE
    /\ failed_at = ""
    /\ navigated = <<>>
    /\ calls = <<>>
    /\ resp = [stage1 |-> NoEmbResp, stage2 |-> NoSelResp, stage3 |-> NoEmbResp]

\* No single run is being followed.
RunIdle ==
    /\ target = "cookie_declaration"
    /\ privacy_policy_url = NoneVal
    /\ keywords = <<>>
    /\ RunFresh

Init ==
    /\ target \in Targets
    /\ privacy_policy_url \in SeedArgs
    /\ keywords \in KeywordProfiles
    /\ RunFresh
    /\ CoordIdle
    /\ HeurIdle
    /\ ExtractIdle
    /\ QueryIdle
    /\ PolicyIdle
    /\ ScraperIdle
    /\ MainIdle
    /\ SitemapIdle

\* Control moves to statement l.
Goto(l) ==
    /\ pc' = l
    /\ visited' = visited \cup {l}

\* The try block goes on with statement l.
Continue(l) ==
    /\ Goto(l)
    /\ UNCHANGED <<retval, raised, failed_at>>

\* A return statement inside the try block: the value is delivered once the
\* finally clause has run.
Return(v) ==
    /\ retval' = v
    /\ Goto("finally")
    /\ UNCHANGED <<raised, failed_at>>

\* if stage1_result: return stage1_result, else the given not-found result.
Stage1OrElse(notFound) ==
    IF stage1_result # NoResult THEN stage1_result ELSE notFound

\* Variant of Handler that lets the exception leave the function: nothing is
\* returned.
Reraise(e) ==
    /\ failed_at' = e
    /\ raised' = TRUE
    /\ retval' = retval
    /\ Goto("finally")

\* Variant of Handler that tries the run again from the opening of the seed
\* page, as long as fewer than three navigations were made.
HandlerRetry(e) ==
    /\ failed_at' = e
    /\ raised' = FALSE
    /\ IF Len(navigated) < 3
       THEN retval' = retval /\ Goto("open_seed")
       ELSE /\ retval' = Stage1OrElse(NotFound("An exception occurred: ", <<e>>))
            /\ Goto("finally")

\* The except clause, for an exception raised by statement e of the try
\* block: the exception is swallowed and a result is returned.
Handler(e) ==
    /\ failed_at' = e
    /\ raised' = FALSE
    /\ retval' = Stage1OrElse(NotFound("An exception occurred: ", <<e>>))
    /\ Goto("finally")

\* Variant of Start whose guard tests for None only, so that an empty string
\* passes as a URL.
StartNoneOnly ==
    /\ pc = "start"
    /\ IF privacy_policy_url = NoneVal
       THEN /\ result' = NotFound("No privacy policy URL provided.", <<>>)
            /\ Goto("done")
       ELSE /\ Goto("open_seed")
            /\ UNCHANGED result
    /\ UNCHANGED <<outside, args, page, validation_page, stage1_result, promising,
                   page_content, validation_content, llm_chosen_link,
                   final_candidate_url, full_candidate_url, retval, raised,
                   failed_at, navigated, calls, resp>>

\* if not privacy_policy_url: return before anything is opened.
Start ==
    /\ pc = "start"
    /\ IF ~Truthy(privacy_policy_url)
       THEN /\ result' = NotFound("No privacy policy URL provided.", <<>>)
            /\ Goto("done")
       ELSE /\ Goto("open_seed")
            /\ UNCHANGED result
    /\ UNCHANGED <<outside, args, page, validation_page, stage1_result, promising,
                   page_content, validation_content, llm_chosen_link,
                   final_candidate_url, full_candidate_url, retval, raised,
                   failed_at, navigated, calls, resp>>

\* page = await context.new_page(); await page.goto(privacy_policy_url)
OpenSeedPage ==
    /\ pc = "open_seed"
    /\ \E outcome \in {"ok", "seed new_page", "seed goto"} :
         /\ page' = IF outcome = "seed new_page" THEN "none" ELSE "open"
         /\ navigated' = IF outcome = "seed new_page" THEN navigated
                         ELSE Append(navigated, privacy_policy_url)
         /\ IF outcome = "ok" THEN Continue("extract") ELSE Handler(outcome)
    /\ UNCHANGED <<outside, args, validation_page, stage1_result, promising,
                   page_content, validation_content, llm_chosen_link,
                   final_candidate_url, full_candidate_url, result, calls,
                   resp>>

\* _extract_all_internal_links, _dump_snapshot, page.content() and
\* _filter_promising_links on the seed page.
ExtractAndFilter ==
    /\ pc = "extract"
    /\ \/ \E all_links \in LinkLists :
            /\ promising' = filter_promising_links(all_links, keywords)
            /\ Continue("seed_text")
       \/ /\ Handler("link extraction")
          /\ UNCHANGED promising
    /\ UNCHANGED <<outside, args, page, validation_page, stage1_result, page_content,
                   validation_content, llm_chosen_link, final_candidate_url,
                   full_candidate_url, result, navigated, calls, resp>>

\* A classifier call: which question, and about which page.
Call(k, u) == [kind |-> k, on |-> u]

\* Variant of ReadSeedText that puts the Stage 1 question whatever the text.
ReadSeedTextAlwaysAsks ==
    /\ pc = "seed_text"
    /\ \/ \E text \in PageTexts :
            /\ page_content' = text
            /\ Continue("stage1_ask")
       \/ /\ Handler("seed evaluate")
          /\ UNCHANGED page_content
    /\ UNCHANGED <<outside, args, page, validation_page, stage1_result, promising,
                   validation_content, llm_chosen_link, final_candidate_url,
                   full_candidate_url, result, navigated, calls, resp>>

\* page_content = await page.evaluate("document.body.innerText") on the seed
\* page; an empty text skips the Stage 1 question.
ReadSeedText ==
    /\ pc = "seed_text"
    /\ \/ \E text \in PageTexts :
            /\ page_content' = text
            /\ Continue(IF Truthy(text) THEN "stage1_ask" ELSE "stage2")
       \/ /\ Handler("seed evaluate")
          /\ UNCHANGED page_content
    /\ UNCHANGED <<outside, args, page, validation_page, stage1_result, promising,
                   validation_content, llm_chosen_link, final_candidate_url,
                   full_candidate_url, result, navigated, calls, resp>>

\* Variant of Stage1Result that keeps the URL only and drops the verdict's
\* reasoning and summary.
Stage1ResultUrlOnly(verdict) ==
    Result(privacy_policy_url, "llm", NoneVal, NoKey)

\* The dictionary Stage 1 stores when the verdict is positive.
Stage1Result(verdict) ==
    Result(privacy_policy_url, "llm", verdict.reasoning,
           IF HasSummary(target) THEN verdict.summary ELSE NoKey)

\* Stage 1: the embedded-content question about the seed page's text.
Stage1Ask ==
    /\ pc = "stage1_ask"
    /\ \E r \in EmbeddedResponses("stage1") :
         /\ resp' = [resp EXCEPT !.stage1 = r]
         /\ calls' = Append(calls, Call("embedded", privacy_policy_url))
         /\ IF r.kind = "raise"
            THEN Handler("stage1 classifier") /\ UNCHANGED stage1_result
            ELSE /\ stage1_result' =
                      IF ask_llm_about_declaration(r).found
                      THEN Stage1Result(ask_llm_about_declaration(r))
                      ELSE stage1_result
                 /\ Continue("stage2")
    /\ UNCHANGED <<outside, args, page, validation_page, promising, page_content,
                   validation_content, llm_chosen_link, final_candidate_url,
                   full_candidate_url, result, navigated>>

\* is_llm_choice_valid: the choice occurs inside some candidate href.
is_llm_choice_valid(choice, candidates) ==
    IF Truthy(choice)
    THEN \E i \in 1..Len(candidates) : IsSubstr(choice, candidates[i].href)
    ELSE FALSE

\* final_candidate_url of Stage 2: the classifier's choice when it is valid,
\* else the heuristic's; NoneVal when neither selects.
select_candidate(choice, candidates, kws) ==
    IF Truthy(choice) /\ is_llm_choice_valid(choice, candidates)
    THEN choice
    ELSE IF Truthy(get_best_candidate(candidates, kws))
    THEN get_best_candidate(candidates, kws)
    ELSE NoneVal

\* Variant of no_promising_links without the check: Stage 2 asks the
\* classifier even when there is nothing to choose from.
no_promising_links_unchecked == FALSE

\* Variant of no_promising_links that also ends the search once Stage 1 has
\* found embedded content (the short-circuit of earlier source variants).
no_promising_links_short_circuit ==
    promising = <<>> \/ stage1_result # NoResult

\* if not promising_links_objects: Stage 2 has nothing to choose from.
no_promising_links == promising = <<>>

\* Stage 2: no candidates ends the run; otherwise the page's HTML is read,
\* the link-selection question is asked and a candidate is selected.
Stage2Select ==
    /\ pc = "stage2"
    /\ IF no_promising_links
       THEN /\ Return(Stage1OrElse(
                   NotFound("not on page, and no links with relevant keywords found.", <<>>)))
            /\ UNCHANGED <<llm_chosen_link, final_candidate_url,
                           full_candidate_url, calls, resp>>
       ELSE \/ /\ Handler("page.content")
               /\ UNCHANGED <<llm_chosen_link, final_candidate_url,
                              full_candidate_url, calls, resp>>
            \/ \E r \in SelectionResponses(promising) :
                 /\ resp' = [resp EXCEPT !.stage2 = r]
                 /\ calls' = Append(calls, Call("select", privacy_policy_url))
                 /\ IF r.kind = "raise"
                    THEN /\ Handler("stage2 classifier")
                         /\ UNCHANGED <<llm_chosen_link, final_candidate_url,
                                        full_candidate_url>>
                    ELSE LET choice == extract_link_from_html(r)
                             final == select_candidate(choice, promising, keywords)
                         IN  /\ llm_chosen_link' = choice
                             /\ final_candidate_url' = final
                             /\ IF final = NoneVal
                                THEN /\ Return(Stage1OrElse(
                                            NotFound("LLM and heuristic both failed to choose a link.", <<>>)))
                                     /\ UNCHANGED full_candidate_url
                                ELSE /\ full_candidate_url' =
                                            urljoin(privacy_policy_url, final)
                                     /\ Continue("open_validation")
    /\ UNCHANGED <<outside, args, page, validation_page, stage1_result, promising,
                   page_content, validation_content, result, navigated>>

\* Variant of OpenValidationPage in which the candidate page is opened as
\* soon as Stage 2 begins, before a link has been selected.
OpenValidationPageEarly ==
    /\ pc \in {"stage2", "open_validation"}
    /\ \E outcome \in {"ok", "validation new_page", "validation goto"} :
         /\ validation_page' =
                IF outcome = "validation new_page" THEN "none" ELSE "open"
         /\ navigated' = IF outcome = "validation new_page" THEN navigated
                         ELSE Append(navigated, full_candidate_url)
         /\ IF outcome = "ok" THEN Continue("validation_text")
            ELSE Handler(outcome)
    /\ UNCHANGED <<outside, args, page, stage1_result, promising, page_content,
                   validation_content, llm_chosen_link, final_candidate_url,
                   full_candidate_url, result, calls, resp>>

\* validation_page = await context.new_page();
\* await validation_page.goto(full_candidate_url)
OpenValidationPage ==
    /\ pc = "open_validation"
    /\ \E outcome \in {"ok", "validation new_page", "validation goto"} :
         /\ validation_page' =
                IF outcome = "validation new_page" THEN "none" ELSE "open"
         /\ navigated' = IF outcome = "validation new_page" THEN navigated
                         ELSE Append(navigated, full_candidate_url)
         /\ IF outcome = "ok" THEN Continue("validation_text")
            ELSE Handler(outcome)
    /\ UNCHANGED <<outside, args, page, stage1_result, promising, page_content,
                   validation_content, llm_chosen_link, final_candidate_url,
                   full_candidate_url, result, calls, resp>>

\* Variant of candidate_page_empty without the check.
candidate_page_empty_unchecked(content) == FALSE

\* if not validation_content: the candidate page has no text.
candidate_page_empty(content) == ~Truthy(content)

\* validation_content = await validation_page.evaluate(...); an empty page
\* ends the run without a Stage 3 question.
ReadValidationText ==
    /\ pc = "validation_text"
    /\ \/ \E text \in PageTexts :
            /\ validation_content' = text
            /\ IF candidate_page_empty(text)
               THEN Return(Stage1OrElse(
                        NotFound("Found link, but the page was empty.",
                                 full_candidate_url)))
               ELSE Continue("stage3_ask")
       \/ /\ Handler("validation evaluate")
          /\ UNCHANGED validation_content
    /\ UNCHANGED <<outside, args, page, validation_page, stage1_result, promising,
                   page_content, llm_chosen_link, final_candidate_url,
                   full_candidate_url, result, navigated, calls, resp>>

\* Variant of Stage3Result that forgets the embedded result when validation
\* fails.
Stage3ResultNoFallback(verdict) ==
    IF verdict.found
    THEN Result(full_candidate_url, "Found and validated separate page at ",
                full_candidate_url,
                IF HasSummary(target) THEN verdict.summary ELSE NoKey)
    ELSE NotFound("Found link, but content validation failed and nothing was found initially.",
                  full_candidate_url)

\* Variant of Stage3Result that prefers the embedded result to a validated
\* page.
Stage3ResultPreferEmbedded(verdict) ==
    IF stage1_result # NoResult THEN stage1_result
    ELSE IF verdict.found
    THEN Result(full_candidate_url, "Found and validated separate page at ",
                full_candidate_url,
                IF HasSummary(target) THEN verdict.summary ELSE NoKey)
    ELSE NotFound("Found link, but content validation failed and nothing was found initially.",
                  full_candidate_url)

\* Variant of Stage3Result that carries the summary of the embedded result
\* over to a validated page.
Stage3ResultStage1Summary(verdict) ==
    IF verdict.found
    THEN Result(full_candidate_url, "Found and validated separate page at ",
                full_candidate_url,
                IF ~HasSummary(target) THEN NoKey
                ELSE IF stage1_result # NoResult THEN stage1_result.summary
                ELSE verdict.summary)
    ELSE Stage1OrElse(
             NotFound("Found link, but content validation failed and nothing was found initially.",
                      full_candidate_url))

\* The return value of Stage 3 for a verdict on the candidate page.
Stage3Result(verdict) ==
    IF verdict.found
    THEN Result(full_candidate_url, "Found and validated separate page at ",
                full_candidate_url,
                IF HasSummary(target) THEN verdict.summary ELSE NoKey)
    ELSE Stage1OrElse(
             NotFound("Found link, but content validation failed and nothing was found initially.",
                      full_candidate_url))

\* Stage 3: the embedded-content question about the candidate page's text.
Stage3Ask ==
    /\ pc = "stage3_ask"
    /\ \E r \in EmbeddedResponses("stage3") :
         /\ resp' = [resp EXCEPT !.stage3 = r]
         /\ calls' = Append(calls, Call("embedded", full_candidate_url))
         /\ IF r.kind = "raise"
            THEN Handler("stage3 classifier")
            ELSE Return(Stage3Result(ask_llm_about_declaration(r)))
    /\ UNCHANGED <<outside, args, page, validation_page, stage1_result, promising,
                   page_content, validation_content, llm_chosen_link,
                   final_candidate_url, full_candidate_url, result, navigated>>

\* Variant of Finally that closes the seed page only.
FinallySeedOnly ==
    /\ pc = "finally"
    /\ page' = IF page = "open" THEN "closed" ELSE page
    /\ validation_page' = validation_page
    /\ result' = IF raised THEN result ELSE retval
    /\ Goto("done")
    /\ UNCHANGED <<outside, args, stage1_result, promising, page_content,
                   validation_content, llm_chosen_link, final_candidate_url,
                   full_candidate_url, retval, raised, failed_at, navigated,
                   calls, resp>>

\* The finally clause closes the pages that exist; then the caller receives
\* the returned value, unless an exception is leaving the function.
Finally ==
    /\ pc = "finally"
    /\ page' = IF page = "open" THEN "closed" ELSE page
    /\ validation_page' = IF validation_page = "open" THEN "closed"
                          ELSE validation_page
    /\ result' = IF raised THEN result ELSE retval
    /\ Goto("done")
    /\ UNCHANGED <<outside, args, stage1_result, promising, page_content,
                   validation_content, llm_chosen_link, final_candidate_url,
                   full_candidate_url, retval, raised, failed_at, navigated,
                   calls, resp>>

Next ==
    \/ Start
    \/ OpenSeedPage
    \/ ExtractAndFilter
    \/ ReadSeedText
    \/ Stage1Ask
    \/ Stage2Select
    \/ OpenValidationPage
    \/ ReadValidationText
    \/ Stage3Ask
    \/ Finally

vars == <<run_vars, outside>>

Spec == Init /\ [][Next]_vars

\* ------------------------------------------------------------------------
\* Shape of the state
\* ------------------------------------------------------------------------

Labels ==
    {"start", "open_seed", "extract", "seed_text", "stage1_ask", "stage2",
     "open_validation", "validation_text", "stage3_ask", "finally", "done"}

TypeOK ==
    /\ pc \in Labels
    /\ visited \subseteq Labels
    /\ page \in {"none", "open", "closed"}
    /\ validation_page \in {"none", "open", "closed"}
    /\ raised \in BOOLEAN

\* The run has returned to its caller.
Done == pc = "done"

\* ------------------------------------------------------------------------
\* Properties of a sub-target run
\* ------------------------------------------------------------------------

\* Stage 1 recorded an embedded result.
Embedded == stage1_result # NoResult

\* The Stage 1 classifier answered "found".
Stage1Found == resp.stage1.kind = "resp" /\ resp.stage1.success /\ resp.stage1.found

\* The Stage 3 classifier was asked about the candidate page.
Stage3Asked == resp.stage3.kind # "none"

\* The Stage 3 classifier confirmed the candidate page.
Validated == resp.stage3.kind = "resp" /\ resp.stage3.success /\ resp.stage3.found

\* The link-selection classifier was called.
SelectCalled == \E i \in 1..Len(calls) : calls[i].kind = "select"

\* The seed page's links were extracted and filtered.
Extracted == "seed_text" \in visited

\* The not-found result of Stage 2 for an empty candidate set.
NoLinksResult ==
    NotFound("not on page, and no links with relevant keywords found.", <<>>)

\* The not-found result of the except clause.
ExceptionResult == NotFound("An exception occurred: ", <<failed_at>>)

\* C1: when Stage 1 recorded an embedded result and the Stage 3 classifier,
\* asked about the selected candidate page, does not confirm it, the run
\* returns stage1_result, whose url is the seed URL, and not a not-found
\* result.
C1_FallbackPriority ==
    Done /\ Embedded /\ Stage3Asked /\ ~Validated
        => /\ result = stage1_result
           /\ result.url = privacy_policy_url

C1_Witness ==
    /\ Done
    /\ Embedded
    /\ resp.stage3 = EmbNeg("stage3")
    /\ result = stage1_result

\* C2: a candidate page the Stage 3 classifier confirms is what the run
\* returns, with or without an embedded result; stage1_result is returned
\* only when no candidate page was validated, and a not-found result only
\* when there is neither.
C2_ValidatedPagePreferred ==
    Done => /\ Validated => result.url = full_candidate_url
            /\ Embedded /\ result = stage1_result => ~Validated
            /\ result.url = NoneVal => ~Embedded /\ ~Validated

C2_Witness ==
    /\ Done
    /\ Validated
    /\ Embedded
    /\ result.url = full_candidate_url
    /\ result # stage1_result

\* The URLs a run may name: the seed page and the hrefs of the candidates.
AllowedUrls == {privacy_policy_url} \cup Hrefs(promising)

\* C3: a returned url that is not null is the seed URL or the href of a
\* keyword-filtered candidate of the seed page; a string of the classifier's
\* that is no candidate href is never returned.
C3_UrlIsSeedOrCandidate ==
    Done /\ result.url # NoneVal => result.url \in AllowedUrls

\* C3, its second part: no URL other than the seed URL and the candidate
\* hrefs is navigated to.
C3_NavigatesOnlyToSeedOrCandidate ==
    \A i \in 1..Len(navigated) : navigated[i] \in AllowedUrls

\* C4: when the classifier's choice is not the href of any candidate, the
\* URL Stage 2 selects for Stage 3 is the winner of _get_best_candidate over
\* the same candidates and keywords.
C4_ScopeViolationUsesScorer ==
    ( /\ "open_validation" \in visited
      /\ resp.stage2.kind = "resp"
      /\ extract_link_from_html(resp.stage2) \notin Hrefs(promising) )
        => final_candidate_url = get_best_candidate(promising, keywords)

\* C5 as stated: with an empty candidate set the run returns stage1_result
\* when Stage 1 found embedded content and else the not-found result naming
\* the absence of embedded content and of links; the link-selection
\* classifier is not called and no candidate page is opened.
C5_EmptyCandidatesAsStated ==
    Done /\ Extracted /\ promising = <<>>
        => /\ result = (IF Embedded THEN stage1_result ELSE NoLinksResult)
           /\ ~SelectCalled
           /\ validation_page = "none"
           /\ navigated = <<privacy_policy_url>>

\* C5 amended: as stated, except that when reading the seed page's text or
\* the Stage 1 classifier call raised, the not-found result describes that
\* exception.
C5_EmptyCandidates ==
    Done /\ Extracted /\ promising = <<>>
        => /\ failed_at \in {"", "seed evaluate", "stage1 classifier"}
           /\ result = (IF Embedded THEN stage1_result
                        ELSE IF failed_at # "" THEN ExceptionResult
                        ELSE NoLinksResult)
           /\ ~SelectCalled
           /\ validation_page = "none"
           /\ navigated = <<privacy_policy_url>>

C5_Witness ==
    /\ Done
    /\ Extracted
    /\ promising = <<>>
    /\ Embedded
    /\ failed_at = ""
    /\ result = stage1_result

\* C6 as stated: when the Stage 1 classifier answers found and the candidate
\* set is not empty, the link-selection classifier has been called by the
\* time the run returns.
C6_Stage2AlwaysAskedAsStated ==
    Done /\ Stage1Found /\ promising # <<>> => SelectCalled

\* C6 amended: when the Stage 1 classifier answers found and the candidate
\* set is not empty, the run enters Stage 2, and the link-selection
\* classifier has been called by the time the run returns unless reading the
\* page's HTML at the start of Stage 2 raised, in which case stage1_result is
\* returned.
C6_Stage2AlwaysAsked ==
    Done /\ Stage1Found /\ promising # <<>>
        => /\ "stage2" \in visited
           /\ \/ SelectCalled
              \/ failed_at = "page.content" /\ result = stage1_result

C6_Witness ==
    /\ Done
    /\ Stage1Found
    /\ promising # <<>>
    /\ SelectCalled
    /\ ~Validated
    /\ result = stage1_result

\* The heuristic scorer selects a link from every candidate set a run can
\* have: a non-empty candidate set means a non-empty keyword list, and the
\* first candidate's score is at least 0, above the initial max_score of -1.
ScorerAlwaysSelects ==
    promising # <<>> => Truthy(get_best_candidate(promising, keywords))

\* C7: when the classifier's choice is null or invalid and the heuristic
\* scorer returns none, the run returns stage1_result if it was recorded and
\* else a not-found result, without opening a candidate page.  By
\* ScorerAlwaysSelects no run reaches this case.
C7_NeitherSelects ==
    ( /\ Done
      /\ resp.stage2.kind = "resp"
      /\ ~is_llm_choice_valid(llm_chosen_link, promising)
      /\ get_best_candidate(promising, keywords) = NoneVal )
        => /\ result = (IF Embedded THEN stage1_result
                        ELSE NotFound("LLM and heuristic both failed to choose a link.", <<>>))
           /\ validation_page = "none"

\* C8: when the candidate page has no text, the run returns stage1_result if
\* it was recorded and else a not-found result with url null, and the
\* embedded-content classifier is not asked about that page.
C8_EmptyCandidatePage ==
    Done /\ validation_content = <<>>
        => /\ Embedded => result = stage1_result
           /\ ~Embedded =>
                 result = NotFound("Found link, but the page was empty.",
                                   full_candidate_url)
           /\ ~Stage3Asked
           /\ calls[Len(calls)].kind = "select"

C8_Witness ==
    /\ Done
    /\ validation_content = <<>>
    /\ ~Embedded
    /\ result.url = NoneVal
    /\ validation_page = "closed"

\* C9: a failed classifier call acts as the answer "nothing found": after a
\* failed Stage 1 call no stage1_result is recorded, after a failed Stage 2
\* call the choice is None and the heuristic scorer's winner is selected,
\* and after a failed Stage 3 call the run returns what it returns for a
\* negative verdict.
C9_FailureIsNotFound ==
    /\ resp.stage1 = EmbFail => stage1_result = NoResult
    /\ resp.stage2 = SelFail
          => /\ llm_chosen_link = NoneVal
             /\ final_candidate_url = get_best_candidate(promising, keywords)
    /\ resp.stage3 = EmbFail
          => /\ retval = Stage3Result(
                            [found |-> FALSE,
                             reasoning |-> EmbNeg("stage3").reasoning,
                             summary |-> EmbNeg("stage3").summary])
             /\ Done => result = retval

C9_Witness ==
    /\ Done
    /\ resp.stage1 = EmbFail
    /\ resp.stage2 = SelFail
    /\ resp.stage3 = EmbFail
    /\ result.url = NoneVal

C12_NoSeedNoRun ==
    \/ Truthy(privacy_policy_url)
    \/ /\ pc \in {"start", "done"}
       /\ page = "none"
       /\ validation_page = "none"
       /\ navigated = <<>>
       /\ calls = <<>>
       /\ ~raised
       /\ Done => result = NotFound("No privacy policy URL provided.", <<>>)

C12_Witness ==
    /\ Done
    /\ privacy_policy_url = <<>>
    /\ target = "dpo"
    /\ result.url = NoneVal
    /\ result.reasoning.tag = "No privacy policy URL provided."

\* ------------------------------------------------------------------------
\* Discovery Coordinator: the four sub-target runs as concurrent tasks
\* ------------------------------------------------------------------------

\* What the awaits of one stage of a run can come to.  "no page" is
\* context.new_page() raising, "raise" any later await of the stage raising
\* (in Stage 3, any await of the stage).
Stage1Outcomes == {"no page", "raise", "found", "not found"}
Stage2Outcomes == {"raise", "no links", "selected"}
Stage3Outcomes == {"raise", "empty", "found", "not found"}

\* The pages of the shared browser context that task t opened.
PagesOf(t) == {<<t, "seed">>, <<t, "validation">>}

\* An await on the page <<t, role>> raises when that page is not open.
PageOp(t, role, o) == IF <<t, role>> \in open_pages THEN o ELSE "raise"

\* Variant of TaskHandler that lets the exception leave the task.
TaskReraise(tk) == [tk EXCEPT !.raised = TRUE, !.pc = "finally"]

\* The except clause of a run, in a task.
TaskHandler(tk) ==
    [tk EXCEPT !.ret = IF tk.s1 THEN "embedded" ELSE "exception",
               !.pc = "finally"]

\* A return statement of a run, in a task: stage1_result if it is set, else
\* the given not-found result.
TaskReturn(tk, notFound) ==
    [tk EXCEPT !.ret = IF tk.s1 THEN "embedded" ELSE notFound,
               !.pc = "finally"]

\* Variant of phase_name with one name for the four functions.
phase_name_shared(t) == "stage_2"

\* phase_name, the local of the function of target t.
phase_name(t) ==
    CASE t = "cookie_declaration" -> "find_cookie_declaration_page_stage_2"
      [] t = "data_retention" -> "find_data_retention_page_stage_2"
      [] t = "data_deletion" -> "find_data_deletion_page_stage_2"
      [] t = "dpo" -> "find_dpo_page_stage_2"

\* Whether _dump_snapshot is reached and writes its files, or not.
DumpOutcomes == {"none", "both"}

\* The paths _dump_snapshot has opened for writing when it returns.
DumpPaths(phase, d) ==
    IF d = "none" THEN {}
    ELSE {<<phase, ".html">>, <<phase, "_links.json">>}

\* await self._dump_snapshot(page, site_dump_folder, phase_name, ...) in the
\* run of target t: each file opened is written by t.
dump_snapshot(t, d) ==
    dump_folder \cup {<<path, t>> : path \in DumpPaths(phase_name(t), d)}

\* Stage 1 of task t: the seed page is opened, its links and text are read,
\* the snapshot is dumped and the embedded-content question is asked.  A
\* run that raises does so before or after the dump.
TaskStage1(t) ==
    /\ tasks[t].pc = "stage1"
    /\ \E o \in Stage1Outcomes :
         LET tk == [tasks[t] EXCEPT !.hist = Append(@, o)]
         IN  /\ open_pages' = IF o = "no page" THEN open_pages
                              ELSE open_pages \cup {<<t, "seed">>}
             /\ \E d \in DumpOutcomes :
                   /\ o = "no page" => d = "none"
                   /\ o \in {"found", "not found"} => d = "both"
                   /\ dump_folder' = dump_snapshot(t, d)
             /\ tasks' = [tasks EXCEPT ![t] =
                    CASE o \in {"no page", "raise"} -> TaskHandler(tk)
                      [] o = "found" -> [tk EXCEPT !.s1 = TRUE, !.pc = "stage2"]
                      [] o = "not found" -> [tk EXCEPT !.pc = "stage2"]]
    /\ UNCHANGED <<not_coord, site_analysis>>

\* Stage 2 of task t: no candidates ends the run, else the seed page's HTML is
\* read, the link-selection question is asked and a candidate is selected.
TaskStage2(t) ==
    /\ tasks[t].pc = "stage2"
    /\ \E o \in Stage2Outcomes :
         LET tk == [tasks[t] EXCEPT !.hist = Append(@, o)]
             got == IF o = "no links" THEN o ELSE PageOp(t, "seed", o)
         IN  tasks' = [tasks EXCEPT ![t] =
                 CASE got = "raise" -> TaskHandler(tk)
                   [] got = "no links" -> TaskReturn(tk, "no links")
                   [] got = "selected" -> [tk EXCEPT !.pc = "stage3"]]
    /\ UNCHANGED <<not_coord, open_pages, site_analysis, dump_folder>>

\* Stage 3 of task t: the candidate page is opened, its text is read and the
\* embedded-content question is asked about it.
TaskStage3(t) ==
    /\ tasks[t].pc = "stage3"
    /\ \E o \in Stage3Outcomes :
         LET tk == [tasks[t] EXCEPT !.hist = Append(@, o)]
         IN  /\ open_pages' = open_pages \cup {<<t, "validation">>}
             /\ tasks' = [tasks EXCEPT ![t] =
                    CASE o = "raise" -> TaskHandler(tk)
                      [] o = "empty" -> TaskReturn(tk, "empty page")
                      [] o = "found" -> [tk EXCEPT !.ret = "validated",
                                                   !.pc = "finally"]
                      [] o = "not found" -> TaskReturn(tk, "validation failed")]
    /\ UNCHANGED <<not_coord, site_analysis, dump_folder>>

\* The finally clause of task t closes the pages the task opened.
TaskFinally(t) ==
    /\ tasks[t].pc = "finally"
    /\ open_pages' = open_pages \ PagesOf(t)
    /\ tasks' = [tasks EXCEPT ![t].pc = "done"]
    /\ UNCHANGED <<not_coord, site_analysis, dump_folder>>

\* The next step of task t.
TaskNext(t) ==
    \/ TaskStage1(t)
    \/ TaskStage2(t)
    \/ TaskStage3(t)
    \/ TaskFinally(t)

\* The coordinator after the Privacy Policy step: with a URL it starts the
\* four sub-target runs as concurrent tasks, without one it records four
\* not-found results and starts none.
CoordFanOut ==
    /\ site_analysis.status = "policy"
    /\ \E resolved \in BOOLEAN :
         IF resolved
         THEN /\ tasks' = [t \in Targets |-> [IdleTask EXCEPT !.pc = "stage1"]]
              /\ site_analysis' = [site_analysis EXCEPT !.status = "fanout"]
         ELSE /\ tasks' = tasks
              /\ site_analysis' =
                    [status |-> "joined",
                     results |-> [t \in Targets |-> "no privacy policy url"]]
    /\ UNCHANGED <<not_coord, open_pages, dump_folder>>

\* The join of the four tasks: an exception that left a task reaches the
\* coordinator in place of the results; otherwise each task's result is
\* attached under its target.
CoordJoin ==
    /\ site_analysis.status = "fanout"
    /\ \A t \in Targets : tasks[t].pc = "done"
    /\ site_analysis' =
          IF \E t \in Targets : tasks[t].raised
          THEN [status |-> "aborted", results |-> <<>>]
          ELSE [status |-> "joined",
                results |-> [t \in Targets |-> tasks[t].ret]]
    /\ UNCHANGED <<not_coord, tasks, open_pages, dump_folder>>

CoordInit ==
    /\ RunIdle
    /\ HeurIdle
    /\ ExtractIdle
    /\ QueryIdle
    /\ PolicyIdle
    /\ ScraperIdle
    /\ MainIdle
    /\ SitemapIdle
    /\ tasks = [t \in Targets |-> IdleTask]
    /\ open_pages = {}
    /\ site_analysis = [status |-> "policy", results |-> <<>>]
    /\ dump_folder = {}

CoordNext ==
    \/ CoordFanOut
    \/ \E t \in Targets : TaskStage1(t)
    \/ \E t \in Targets : TaskStage2(t)
    \/ \E t \in Targets : TaskStage3(t)
    \/ \E t \in Targets : TaskFinally(t)
    \/ CoordJoin

CoordSpec == CoordInit /\ [][CoordNext]_vars

\* What a run returns, as a function of the outcomes of its own awaits.
AloneResult(hist) ==
    LET last == hist[Len(hist)]
        s1 == hist[1] = "found"
    IN  IF Len(hist) = 3 /\ last = "found" THEN "validated"
        ELSE IF s1 THEN "embedded"
        ELSE CASE last \in {"no page", "raise"} -> "exception"
               [] last = "no links" -> "no links"
               [] last = "empty" -> "empty page"
               [] last = "not found" -> "validation failed"

\* The result of the single run followed by Spec, in the terms of a task.
RunResultKind ==
    IF result.url = NoneVal
    THEN CASE result.reasoning.tag = "An exception occurred: " -> "exception"
           [] result.reasoning.tag =
                "not on page, and no links with relevant keywords found." -> "no links"
           [] result.reasoning.tag = "Found link, but the page was empty." -> "empty page"
           [] OTHER -> "validation failed"
    ELSE IF result = stage1_result THEN "embedded"
    ELSE "validated"

\* The outcomes of the awaits of the single run followed by Spec, stage by
\* stage, in the terms of a task.
RunHist ==
    LET raisedIn(names) == failed_at \in names
        h1 == IF failed_at = "seed new_page" THEN "no page"
              ELSE IF raisedIn({"seed goto", "link extraction", "seed evaluate",
                                "stage1 classifier"}) THEN "raise"
              ELSE IF Embedded THEN "found" ELSE "not found"
        h2 == IF raisedIn({"page.content", "stage2 classifier"}) THEN "raise"
              ELSE IF promising = <<>> THEN "no links" ELSE "selected"
        h3 == IF raisedIn({"validation new_page", "validation goto",
                           "validation evaluate", "stage3 classifier"}) THEN "raise"
              ELSE IF validation_content = <<>> THEN "empty"
              ELSE IF Validated THEN "found" ELSE "not found"
    IN  IF "stage2" \notin visited THEN <<h1>>
        ELSE IF "open_validation" \notin visited THEN <<h1, h2>>
        ELSE <<h1, h2, h3>>

\* A task of the coordinator returns what the run it stands for returns: the
\* result of every finished run of Spec is AloneResult of its outcomes.
TaskAbstractsRun ==
    Done /\ Truthy(privacy_policy_url) => RunResultKind = AloneResult(RunHist)

\* Some await of the task raised.
TaskFailed(t) ==
    \E i \in 1..Len(tasks[t].hist) : tasks[t].hist[i] \in {"no page", "raise"}

SelectAt ==
    IF SelectCalled
    THEN CHOOSE i \in 1..Len(calls) : calls[i].kind = "select"
    ELSE 0

\* C14: the stages of a run follow one another.  The link-selection call is
\* made only after the Stage 1 check on the seed page's text has answered or
\* was skipped for an empty text; the candidate page is opened and navigated
\* to only after Stage 2 selected a link; the Stage 3 question is asked only
\* after that page's text was read; and the classifier calls and navigations
\* come one at a time in the order Stage 1, Stage 2, Stage 3.
C14_StagesSequential ==
    /\ SelectCalled
          => /\ page_content # NoneVal
             /\ resp.stage1.kind = "resp" \/ page_content = <<>>
             /\ resp.stage1.kind = "resp" <=> SelectAt = 2
    /\ validation_page # "none" \/ Len(navigated) > 1
          => /\ resp.stage2.kind = "resp"
             /\ Truthy(final_candidate_url)
             /\ full_candidate_url = urljoin(privacy_policy_url, final_candidate_url)
    /\ Stage3Asked
          => /\ Truthy(validation_content)
             /\ validation_page # "none"
             /\ SelectCalled
             /\ Len(calls) = SelectAt + 1
    /\ Len(calls) <= 3
    /\ \A i \in 1..Len(calls) :
          /\ i < SelectAt => calls[i] = Call("embedded", privacy_policy_url)
          /\ i > SelectAt /\ SelectCalled
                => calls[i] = Call("embedded", full_candidate_url)
          /\ ~SelectCalled => calls[i] = Call("embedded", privacy_policy_url)
    /\ Len(navigated) <= 2
    /\ \A i \in 1..Len(navigated) :
          navigated[i] = (IF i = 1 THEN privacy_policy_url ELSE full_candidate_url)

C14_Witness ==
    /\ Done
    /\ Len(calls) = 3
    /\ SelectAt = 2
    /\ Len(navigated) = 2
    /\ Validated

\* ------------------------------------------------------------------------
\* The keyword filter and the heuristic scorer called on their own
\* ------------------------------------------------------------------------

\* Longest list of link objects passed to the two functions.
MaxCandidates == 3

\* Link objects to pass in: two that tie under the keyword "cookie" with
\* hrefs of different length, one that matches nothing, one whose href and
\* text hold the two words of "cookie policy" apart, one more.
HeurLinkUniverse ==
    { Link(<<OriginA, "/", "cookie">>, <<"Cookie", " ", "Policy">>),
      Link(<<OriginA, "/", "legal", "/", "cookie">>, <<"cookie">>),
      Link(<<OriginA, "/", "about">>, <<"about">>),
      Link(<<OriginA, "/", "cookie">>, <<"policy">>),
      Link(<<OriginA, "/", "privacy">>, <<"legal">>) }

HeurLinkLists == UNION { [1..n -> HeurLinkUniverse] : n \in 0..MaxCandidates }

\* Keyword lists to pass in: None, the empty list, one phrase in lower and in
\* upper case, two phrases in priority order, and the empty phrase.
HeurKeywordLists ==
    { NoList,
      <<>>,
      << <<"cookie">> >>,
      << <<"Cookie">> >>,
      << <<"cookie", " ", "policy">>, <<"legal">> >>,
      << <<>> >> }

HeurInit ==
    /\ RunIdle
    /\ CoordIdle
    /\ ExtractIdle
    /\ QueryIdle
    /\ PolicyIdle
    /\ ScraperIdle
    /\ MainIdle
    /\ SitemapIdle
    /\ h_links \in HeurLinkLists
    /\ h_keywords \in HeurKeywordLists
    /\ h_filtered = <<>>
    /\ h_winner = NoneVal
    /\ h_applied = {}

\* promising_links = self._filter_promising_links(h_links, h_keywords)
ApplyFilter ==
    /\ "filter" \notin h_applied
    /\ h_filtered' = filter_promising_links(h_links, h_keywords)
    /\ h_applied' = h_applied \cup {"filter"}
    /\ UNCHANGED <<not_heur, h_links, h_keywords, h_winner>>

\* heuristic_url = self._get_best_candidate(h_links, h_keywords)
ApplyScorer ==
    /\ "scorer" \notin h_applied
    /\ h_winner' = get_best_candidate(h_links, h_keywords)
    /\ h_applied' = h_applied \cup {"scorer"}
    /\ UNCHANGED <<not_heur, h_links, h_keywords, h_filtered>>

HeurNext ==
    \/ ApplyFilter
    \/ ApplyScorer

HeurSpec == HeurInit /\ [][HeurNext]_vars

\* The keyword list as the loops see it: None has no phrases.
Phrases(kws) == IF kws = NoList THEN <<>> ELSE kws

\* The score of a link under a keyword list.
ScoreOf(link, kws) == LinkScore(link, Phrases(kws))

\* C15: _get_best_candidate returns None when the candidate list is empty,
\* and also when every candidate scores 0 under the keyword list.
C15_NoneWhenAllZero ==
    "scorer" \in h_applied
        => ( (\A i \in 1..Len(h_links) : ScoreOf(h_links[i], h_keywords) = 0)
                => h_winner = NoneVal )

\* What the scorer does return None for: an empty candidate list or an
\* empty (or missing) keyword list, and nothing else.
ScorerNoneIffEmpty ==
    "scorer" \in h_applied
        => (h_winner = NoneVal <=> h_links = <<>> \/ Phrases(h_keywords) = <<>>)

\* The largest score among the candidates passed in.
MaxScore ==
    CHOOSE m \in {ScoreOf(h_links[i], h_keywords) : i \in 1..Len(h_links)} :
        \A i \in 1..Len(h_links) : ScoreOf(h_links[i], h_keywords) <= m

\* The candidates passed in that have the largest score.
TopCandidates ==
    {h_links[i] : i \in {j \in 1..Len(h_links) :
                            ScoreOf(h_links[j], h_keywords) = MaxScore}}

\* C16: of two candidates that both have the maximal score, the one with
\* the longer href is never returned, in whichever order the two stand in
\* the list; the winner's href is a shortest one among the maximal-score
\* candidates.
C16_TieBreakShorterHref ==
    "scorer" \in h_applied /\ h_winner # NoneVal
        => /\ \A a, b \in TopCandidates :
                 StrLen(a.href) < StrLen(b.href) => h_winner # b.href
           /\ \A a \in TopCandidates : StrLen(h_winner) <= StrLen(a.href)

\* The longer of two tied candidates stands first and the shorter is
\* returned.
C16_Witness ==
    /\ "scorer" \in h_applied
    /\ h_keywords = << <<"cookie">> >>
    /\ Len(h_links) = 2
    /\ h_links[1].href = <<OriginA, "/", "legal", "/", "cookie">>
    /\ h_links[2].href = <<OriginA, "/", "cookie">>
    /\ ScoreOf(h_links[1], h_keywords) = ScoreOf(h_links[2], h_keywords)
    /\ h_winner = h_links[2].href

\* The score as C17 states it: over the phrases at the 0-based indices
\* i = n, ..., N-1 of the N phrases, 2*(N-i) when all words of the phrase
\* occur in the lower-cased anchor text plus N-i when all occur in the
\* lower-cased href.
RECURSIVE StatedScore(_, _, _)
StatedScore(link, kws, n) ==
    IF n >= Len(kws) THEN 0
    ELSE LET N == Len(kws)
             phrase == kws[n + 1]
             inText == \A w \in Words(Lower(phrase)) : IsSubstr(w, Lower(link.text))
             inHref == \A w \in Words(Lower(phrase)) : IsSubstr(w, Lower(link.href))
         IN  (IF inText THEN 2 * (N - n) ELSE 0)
           + (IF inHref THEN N - n ELSE 0)
           + StatedScore(link, kws, n + 1)

\* C17: the href _get_best_candidate returns is the href of a candidate whose
\* score, as stated above, is the largest of all candidates' scores.
C17_WinnerHasMaxScore ==
    "scorer" \in h_applied /\ h_winner # NoneVal
        => \E i \in 1..Len(h_links) :
              /\ h_links[i].href = h_winner
              /\ \A j \in 1..Len(h_links) :
                    StatedScore(h_links[j], Phrases(h_keywords), 0)
                        <= StatedScore(h_links[i], Phrases(h_keywords), 0)

\* A candidate matched by the second phrase in its anchor text beats an
\* earlier one matched by it in its href only.
C17_Witness ==
    /\ "scorer" \in h_applied
    /\ h_keywords = << <<"cookie", " ", "policy">>, <<"legal">> >>
    /\ h_links = << Link(<<OriginA, "/", "legal", "/", "cookie">>, <<"cookie">>),
                    Link(<<OriginA, "/", "privacy">>, <<"legal">>) >>
    /\ StatedScore(h_links[1], h_keywords, 0) = 1
    /\ StatedScore(h_links[2], h_keywords, 0) = 2
    /\ h_winner = <<OriginA, "/", "privacy">>

\* Some phrase of the keyword list, lower-cased, is a substring of the
\* link's lower-cased href and anchor text joined by a blank.
Retained(link, kws) ==
    \E phrase \in {Phrases(kws)[k] : k \in 1..Len(Phrases(kws))} :
        \E part \in {<<>>} \cup Slices(Lower(link.href) \o <<" ">> \o Lower(link.text)) :
            part = Lower(phrase)

\* C19: _filter_promising_links retains a link if and only if some phrase of
\* the keyword list, lower-cased, is a substring of the link's lower-cased
\* href and anchor text joined together (by one blank, as the code joins
\* them); the retained links keep their order and number; with an empty or
\* missing keyword list nothing is retained.
C19_FilterRetainsIffKeyword ==
    "filter" \in h_applied
        => /\ \A i \in 1..Len(h_links) :
                 Retained(h_links[i], h_keywords)
                    <=> \E j \in 1..Len(h_filtered) : h_filtered[j] = h_links[i]
           /\ \A j \in 1..Len(h_filtered) :
                 \E i \in 1..Len(h_links) : h_links[i] = h_filtered[j]
           /\ Len(h_filtered) =
                 Cardinality({i \in 1..Len(h_links) : Retained(h_links[i], h_keywords)})
           /\ \A j, k \in 1..Len(h_filtered) :
                 j < k => \E a, b \in 1..Len(h_links) :
                             a < b /\ h_links[a] = h_filtered[j] /\ h_links[b] = h_filtered[k]
           /\ h_keywords \in {<<>>, NoList} => h_filtered = <<>>

\* An upper-case keyword retains the links that hold it in lower case and
\* drops the one that does not.
C19_Witness ==
    /\ "filter" \in h_applied
    /\ h_keywords = << <<"Cookie">> >>
    /\ h_links = << Link(<<OriginA, "/", "about">>, <<"about">>),
                    Link(<<OriginA, "/", "cookie">>, <<"policy">>),
                    Link(<<OriginA, "/", "privacy">>, <<"legal">>) >>
    /\ h_filtered = << Link(<<OriginA, "/", "cookie">>, <<"policy">>) >>

\* C35: whenever _get_best_candidate returns a non-null value, that value is
\* the href of one of the candidate links it was given, so that a URL the
\* heuristic fallback selects is always a member of the candidate set.
C35_WinnerIsCandidateHref ==
    "scorer" \in h_applied /\ h_winner # NoneVal
        => h_winner \in Hrefs(h_links)

\* The same in a run: the candidate Stage 2 hands to Stage 3 when it did not
\* take the classifier's choice is the href of a promising link.
FallbackIsCandidate ==
    final_candidate_url # NoneVal /\ final_candidate_url # llm_chosen_link
        => final_candidate_url \in Hrefs(promising)

\* The scorer returned the href of the second of two candidates with
\* different hrefs, neither of which any keyword matches.
C35_Witness ==
    /\ "scorer" \in h_applied
    /\ h_keywords = << <<"cookie">> >>
    /\ h_links = << Link(<<OriginA, "/", "privacy">>, <<"legal">>),
                    Link(<<OriginA, "/", "about">>, <<"about">>) >>
    /\ h_winner = <<OriginA, "/", "about">>
    /\ h_winner \in Hrefs(h_links)

\* ------------------------------------------------------------------------
\* _extract_all_internal_links called on its own
\* ------------------------------------------------------------------------

\* Longest list of <a> elements on a modelled page.
MaxAnchors == 3

\* An await on an <a> element raising, where a value is expected.
RaiseVal == <<"<raise>">>

\* urlparse(url).netloc, as labels and dots (the label "nota" in two atoms,
\* since it ends with the characters of another host's label); empty for a
\* URL without host.
Netloc(url) ==
    IF url = <<>> THEN <<>>
    ELSE CASE url[1] = OriginA -> <<"a", ".", "com">>
           [] url[1] = OriginWww -> <<"www", ".", "a", ".", "com">>
           [] url[1] = OriginSub -> <<"sub", ".", "a", ".", "com">>
           [] url[1] = OriginNotA -> <<"not", "a", ".", "com">>
           [] url[1] = OriginEvil -> <<"evil", ".", "test">>
           [] OTHER -> <<>>

\* str.endswith
EndsWith(s, suffix) ==
    /\ Len(suffix) <= Len(s)
    /\ SubSeq(s, Len(s) - Len(suffix) + 1, Len(s)) = suffix

\* base_netloc[4:] if base_netloc.startswith("www.") else base_netloc
RootDomain(site_url) ==
    LET base_netloc == Netloc(site_url)
    IN  IF Len(base_netloc) >= 2 /\ SubSeq(base_netloc, 1, 2) = <<"www", ".">>
        THEN SubSeq(base_netloc, 3, Len(base_netloc))
        ELSE base_netloc

\* The endings of the endswith test.
AssetExtensions ==
    {".js", ".css", ".png", ".jpg", ".jpeg", ".gif", ".pdf", ".xml", ".json",
     ".zip", ".rar", ".tar", ".gz", ".svg", ".ico"}

\* full_url.endswith((...)): the modelled URLs carry an extension as one atom.
EndsInAsset(full_url) ==
    full_url # <<>> /\ full_url[Len(full_url)] \in AssetExtensions

\* '#' in full_url
HasFragment(full_url) == \E i \in 1..Len(full_url) : full_url[i] = "#"

\* Variant of IsInternal whose subdomain test lacks the dot: any host that
\* ends with the root domain's characters passes.
IsInternalNoDot(full_url, root_domain) ==
    LET link_netloc == Netloc(full_url)
    IN  \/ link_netloc = root_domain
        \/ EndsWith(link_netloc, root_domain)

\* is_exact_domain or is_subdomain
IsInternal(full_url, root_domain) ==
    LET link_netloc == Netloc(full_url)
    IN  \/ link_netloc = root_domain
        \/ EndsWith(link_netloc, <<".">> \o root_domain)

\* str.strip(): the blanks at both ends go.
RECURSIVE Strip(_)
Strip(s) ==
    IF s = <<>> THEN s
    ELSE IF Head(s) = " " THEN Strip(Tail(s))
    ELSE IF s[Len(s)] = " " THEN Strip(SubSeq(s, 1, Len(s) - 1))
    ELSE s

\* An <a> element: what get_attribute('href') and inner_text() give, each a
\* string, NoneVal, or RaiseVal when the await raises.
Anchor(h, t) == [href |-> h, text |-> t]

\* The loop of _extract_all_internal_links from anchor k on, carrying links;
\* unique_hrefs is the set of the hrefs in links.  An anchor whose await
\* raises is left out by the except clause inside the loop.
RECURSIVE ExtractFrom(_, _, _, _)
\* Variant of ExtractFrom without the unique_hrefs test.
RECURSIVE ExtractFromNoDedupe(_, _, _, _)
ExtractFromNoDedupe(site_url, anchors, k, links) ==
    IF k > Len(anchors) THEN links
    ELSE LET a == anchors[k]
             full_url == urljoin(site_url, a.href)
             skip == ExtractFromNoDedupe(site_url, anchors, k + 1, links)
         IN  IF a.href = RaiseVal \/ ~Truthy(a.href) THEN skip
             ELSE IF /\ IsInternal(full_url, RootDomain(site_url))
                     /\ ~HasFragment(full_url)
                     /\ ~EndsInAsset(full_url)
             THEN IF a.text = RaiseVal THEN skip
                  ELSE ExtractFromNoDedupe(site_url, anchors, k + 1,
                           Append(links,
                                  Link(full_url,
                                       Strip(IF a.text = NoneVal THEN <<>>
                                             ELSE a.text))))
             ELSE skip

ExtractFrom(site_url, anchors, k, links) ==
    IF k > Len(anchors) THEN links
    ELSE LET a == anchors[k]
             full_url == urljoin(site_url, a.href)
             skip == ExtractFrom(site_url, anchors, k + 1, links)
         IN  IF a.href = RaiseVal \/ ~Truthy(a.href) THEN skip
             ELSE IF full_url \in Hrefs(links) THEN skip
             ELSE IF /\ IsInternal(full_url, RootDomain(site_url))
                     /\ ~HasFragment(full_url)
                     /\ ~EndsInAsset(full_url)
             THEN IF a.text = RaiseVal THEN skip
                  ELSE ExtractFrom(site_url, anchors, k + 1,
                           Append(links,
                                  Link(full_url,
                                       Strip(IF a.text = NoneVal THEN <<>>
                                             ELSE a.text))))
             ELSE skip

\* _extract_all_internal_links(page), when query_selector_all returns.
extract_all_internal_links(site_url, anchors) ==
    ExtractFrom(site_url, anchors, 1, <<>>)

\* The pages the function is called on.
ExtractPageUrls ==
    { <<OriginA, "/", "privacy">>,
      <<OriginWww, "/", "privacy">>,
      <<OriginSub, "/", "privacy">> }

\* The <a> elements a page may carry.
AnchorUniverse ==
    { Anchor(<<"/", "cookie">>, <<"Cookie">>),
      Anchor(<<OriginA, "/", "cookie">>, <<" ", "legal", " ">>),
      Anchor(<<"#", "top">>, <<"Cookie">>),
      Anchor(<<"/", "cookie", "#", "sec">>, <<"Cookie">>),
      Anchor(<<OriginSub, "/", "legal">>, <<"legal">>),
      Anchor(<<OriginNotA, "/", "cookie">>, <<"Cookie">>),
      Anchor(<<OriginEvil, "/", "fake">>, <<"Cookie">>),
      Anchor(<<"/", "style", ".css">>, <<"Cookie">>),
      Anchor(<<"/", "doc", ".pdf", "?", "v">>, NoneVal),
      Anchor(<<"mailto:", "x">>, <<"Cookie">>),
      Anchor(NoneVal, <<"Cookie">>),
      Anchor(RaiseVal, <<"Cookie">>),
      Anchor(<<"/", "cookie">>, RaiseVal),
      Anchor(<<OriginWww, "/", "about">>, <<"about">>) }

AnchorLists == UNION { [1..n -> AnchorUniverse] : n \in 0..MaxAnchors }

ExtractInit ==
    /\ RunIdle
    /\ CoordIdle
    /\ HeurIdle
    /\ QueryIdle
    /\ PolicyIdle
    /\ ScraperIdle
    /\ MainIdle
    /\ SitemapIdle
    /\ x_page_url \in ExtractPageUrls
    /\ x_anchors \in AnchorLists
    /\ x_query \in {"ok", "raise"}
    /\ x_links = <<>>
    /\ x_raised = FALSE
    /\ x_applied = FALSE

\* Variant of ExtractRaises without the try/except inside the loop: an
\* anchor whose await raises ends the extraction.
ExtractRaisesOnAnchor(query, anchors) ==
    \/ query = "raise"
    \/ \E i \in 1..Len(anchors) :
          anchors[i].href = RaiseVal \/ anchors[i].text = RaiseVal

\* Whether _extract_all_internal_links raises: only page.query_selector_all
\* stands outside the try/except of the loop.
ExtractRaises(query, anchors) == query = "raise"

\* all_links_objects = await self._extract_all_internal_links(page)
ApplyExtract ==
    /\ ~x_applied
    /\ x_applied' = TRUE
    /\ x_raised' = ExtractRaises(x_query, x_anchors)
    /\ x_links' = IF ExtractRaises(x_query, x_anchors) THEN x_links
                  ELSE extract_all_internal_links(x_page_url, x_anchors)
    /\ UNCHANGED <<not_extract, x_page_url, x_anchors, x_query>>

ExtractNext == ApplyExtract

ExtractSpec == ExtractInit /\ [][ExtractNext]_vars

\* The host of url is the given domain or a subdomain of it: the domain
\* itself, or labels followed by a dot and the domain.
HostWithin(url, domain) ==
    \/ Netloc(url) = domain
    \/ \E n \in 1..Len(Netloc(url)) :
          /\ SubSeq(Netloc(url), n, Len(Netloc(url))) = <<".">> \o domain
          /\ n > 1

\* C20: every link _extract_all_internal_links returns has a host that is
\* the analysed site's root domain (the page's host without a leading
\* "www.") or a subdomain of it, contains no '#', and does not end in one of
\* the listed asset extensions.
C20_ExtractedLinksInScope ==
    x_applied /\ ~x_raised
        => \A i \in 1..Len(x_links) :
              /\ HostWithin(x_links[i].href, RootDomain(x_page_url))
              /\ "#" \notin {x_links[i].href[k] : k \in 1..Len(x_links[i].href)}
              /\ x_links[i].href[Len(x_links[i].href)] \notin AssetExtensions

\* A page on www.a.com: the link to a.com and the one to sub.a.com are
\* returned, the one to nota.com is not.
C20_Witness ==
    /\ x_applied
    /\ ~x_raised
    /\ x_page_url = <<OriginWww, "/", "privacy">>
    /\ x_anchors = << Anchor(<<OriginNotA, "/", "cookie">>, <<"Cookie">>),
                      Anchor(<<OriginA, "/", "cookie">>, <<" ", "legal", " ">>),
                      Anchor(<<OriginSub, "/", "legal">>, <<"legal">>) >>
    /\ x_links = << Link(<<OriginA, "/", "cookie">>, <<"legal">>),
                    Link(<<OriginSub, "/", "legal">>, <<"legal">>) >>

\* The anchors of the page whose href attribute was read and resolves to url.
ResolvingTo(url) ==
    {i \in 1..Len(x_anchors) :
        /\ x_anchors[i].href # RaiseVal
        /\ Truthy(x_anchors[i].href)
        /\ urljoin(x_page_url, x_anchors[i].href) = url}

\* The first of a non-empty set of positions.
First(S) == CHOOSE i \in S : \A j \in S : i <= j

\* The text the function keeps for an anchor's inner_text: None counts as
\* empty, blanks at both ends go.
KeptText(t) == Strip(IF t = NoneVal THEN <<>> ELSE t)

\* No two returned links have the same href.
UniqueHrefs ==
    \A i, j \in 1..Len(x_links) : i # j => x_links[i].href # x_links[j].href

\* C21 as stated: no two returned links have the same resolved href, and the
\* text of each is that of the first anchor in document order that resolved
\* to its href.
C21_FirstAnchorTextAsStated ==
    x_applied /\ ~x_raised
        => /\ UniqueHrefs
           /\ \A i \in 1..Len(x_links) :
                 x_links[i].text =
                    KeptText(x_anchors[First(ResolvingTo(x_links[i].href))].text)

\* C21 amended: no two returned links have the same resolved href, and the
\* text of each is that of the first anchor in document order that resolved
\* to its href and whose text could be read.
C21_FirstReadableAnchorText ==
    x_applied /\ ~x_raised
        => /\ UniqueHrefs
           /\ \A i \in 1..Len(x_links) :
                 LET readable == {k \in ResolvingTo(x_links[i].href) :
                                     x_anchors[k].text # RaiseVal}
                 IN  /\ readable # {}
                     /\ x_links[i].text = KeptText(x_anchors[First(readable)].text)

\* Two anchors resolve to the same href; one link is returned, with the
\* text of the first.
C21_Witness ==
    /\ x_applied
    /\ ~x_raised
    /\ x_page_url = <<OriginA, "/", "privacy">>
    /\ x_anchors = << Anchor(<<OriginA, "/", "cookie">>, <<" ", "legal", " ">>),
                      Anchor(<<"/", "cookie">>, <<"Cookie">>) >>
    /\ x_links = << Link(<<OriginA, "/", "cookie">>, <<"legal">>) >>

\* Reading the anchor fails: its href attribute or its text.
ReadFails(a) == a.href = RaiseVal \/ a.text = RaiseVal

\* The anchor is in scope: it has an href that resolves to an internal URL
\* without fragment and without asset extension.
InScope(a) ==
    /\ a.href # RaiseVal
    /\ Truthy(a.href)
    /\ HostWithin(urljoin(x_page_url, a.href), RootDomain(x_page_url))
    /\ "#" \notin {a.href[k] : k \in 1..Len(a.href)}
    /\ a.href[Len(a.href)] \notin AssetExtensions

\* C22: a failure while reading one anchor skips that anchor only.  The
\* extraction raises only when the page's anchors cannot be queried at all;
\* every in-scope anchor that can be read, before or after a failing one, has
\* its link returned; and the list returned is the one the page gives without
\* its failing anchors.
C22_AnchorFailureSkipsOne ==
    x_applied
        => /\ x_raised <=> x_query = "raise"
           /\ ~x_raised
                 => /\ \A i \in 1..Len(x_anchors) :
                          InScope(x_anchors[i]) /\ ~ReadFails(x_anchors[i])
                             => urljoin(x_page_url, x_anchors[i].href) \in Hrefs(x_links)
                    /\ x_links = extract_all_internal_links(
                                    x_page_url,
                                    SelectSeq(x_anchors, LAMBDA a : ~ReadFails(a)))

\* An anchor whose href cannot be read stands between two in-scope anchors,
\* and both are returned.
C22_Witness ==
    /\ x_applied
    /\ ~x_raised
    /\ x_page_url = <<OriginWww, "/", "privacy">>
    /\ x_anchors = << Anchor(<<"/", "cookie">>, <<"Cookie">>),
                      Anchor(RaiseVal, <<"Cookie">>),
                      Anchor(<<OriginWww, "/", "about">>, <<"about">>) >>
    /\ x_links = << Link(<<OriginWww, "/", "cookie">>, <<"Cookie">>),
                    Link(<<OriginWww, "/", "about">>, <<"about">>) >>


\* ------------------------------------------------------------------------
\* OllamaProvider.query_json
\* ------------------------------------------------------------------------

\* The longest text between what precedes and what follows it in a modelled
\* response.
MaxBody == 3

\* The pieces a response text is made of.  Backticks is the run of three
\* backticks of a Markdown fence; a control character is one of those the
\* last re.sub of _parse_json_response removes; JsonMember is the text
\* "k":1.
Backticks == "<3 backticks>"
FenceJson == <<Backticks, "json", "\n">>
Fence == <<Backticks, "\n">>
FenceEnd == <<"\n", Backticks>>
ControlChar == "<0x01>"
JsonMember == "<k:1>"

\* What json.loads gives: a dict, a list or None; JSONDecodeError and
\* ValueError as values.
JsonObject(members) == <<"<dict>", members>>
JsonArray == <<"<list>">>
JSONDecodeError == <<"<JSONDecodeError>">>
ValueError == <<"<ValueError>">>

\* json.loads(json_string): white space between the tokens is ignored, and
\* of the texts made of the modelled pieces only these four are JSON.
json_loads(json_string) ==
    LET tokens == SelectSeq(json_string, LAMBDA c : c # "\n")
    IN  CASE tokens = <<"{", "}">> -> JsonObject({})
          [] tokens = <<"{", JsonMember, "}">> -> JsonObject({JsonMember})
          [] tokens = <<"[]">> -> JsonArray
          [] tokens = <<"null">> -> NoneVal
          [] OTHER -> JSONDecodeError

\* pat occurs in s at position i.
OccursAt(s, pat, i) ==
    /\ i + Len(pat) - 1 <= Len(s)
    /\ SubSeq(s, i, i + Len(pat) - 1) = pat

Least(S) == CHOOSE i \in S : \A j \in S : i <= j

NoMatch == <<"<no match>">>

\* re.search(opening + r'(.*?)\n' + fence, raw_content, re.DOTALL): group(1) of
\* the leftmost match, the group as short as possible.
FencedGroup(raw_content, opening) ==
    LET closings(i) == {j \in (i + Len(opening))..Len(raw_content) :
                           OccursAt(raw_content, FenceEnd, j)}
        starts == {i \in 1..Len(raw_content) :
                      OccursAt(raw_content, opening, i) /\ closings(i) # {}}
    IN  IF starts = {} THEN NoMatch
        ELSE LET i == Least(starts)
             IN  SubSeq(raw_content, i + Len(opening), Least(closings(i)) - 1)

\* AbstractLLMClient._parse_json_response
parse_json_response(raw_content) ==
    LET json_fenced == FencedGroup(raw_content, FenceJson)
        fenced == FencedGroup(raw_content, Fence)
        opens == {i \in 1..Len(raw_content) : raw_content[i] = "{"}
        closes == {i \in 1..Len(raw_content) : raw_content[i] = "}"}
        json_string ==
            IF json_fenced # NoMatch THEN json_fenced
            ELSE IF fenced # NoMatch THEN fenced
            ELSE IF opens = {} \/ closes = {} THEN ValueError
            ELSE SubSeq(raw_content, Least(opens),
                        CHOOSE i \in closes : \A j \in closes : j <= i)
    IN  IF json_string = ValueError THEN ValueError
        ELSE SelectSeq(json_string, LAMBDA c : c # ControlChar)

LLMResponse(success, data, error) ==
    [success |-> success, data |-> data, error |-> error]

\* query_json left by an exception instead of returning.
QueryRaised == [exception |-> TRUE]

\* OllamaProvider.query_json
query_json(chat, raw_content) ==
    IF chat = "raise"
    THEN LLMResponse(FALSE, NoneVal, <<"Ollama API call failed: ", "e">>)
    ELSE LET json_string == parse_json_response(raw_content)
             malformed == LLMResponse(FALSE, NoneVal,
                                      <<"LLM returned malformed JSON.">>)
         IN  IF json_string = ValueError THEN malformed
             ELSE IF json_loads(json_string) = JSONDecodeError THEN malformed
             ELSE LLMResponse(TRUE, json_loads(json_string), NoneVal)

\* The response texts: a text of JSON tokens, prose and control characters,
\* with or without a fence before and after it, and prose around.
BodyAtoms == {"{", "}", JsonMember, "[]", "null", ControlChar, "x"}
Bodies == UNION { [1..n -> BodyAtoms] : n \in 0..MaxBody }
Contents ==
    { pre \o opening \o body \o closing \o post :
        pre \in {<<>>, <<"x">>},
        opening \in {<<>>, FenceJson, Fence, <<Backticks, "json">>},
        body \in Bodies,
        closing \in {<<>>, FenceEnd, <<Backticks>>},
        post \in {<<>>, <<"x">>} }

QueryInit ==
    /\ RunIdle
    /\ CoordIdle
    /\ HeurIdle
    /\ ExtractIdle
    /\ PolicyIdle
    /\ ScraperIdle
    /\ MainIdle
    /\ SitemapIdle
    /\ \/ q_chat = "ok" /\ q_content \in Contents
       \/ q_chat = "raise" /\ q_content = <<>>
    /\ q_response = [pending |-> TRUE]
    /\ q_applied = FALSE

\* response = await self.llm_client.query_json(user_prompt=prompt)
ApplyQuery ==
    /\ ~q_applied
    /\ q_applied' = TRUE
    /\ q_response' = query_json(q_chat, q_content)
    /\ UNCHANGED <<not_query, q_chat, q_content>>

QueryNext == ApplyQuery

QuerySpec == QueryInit /\ [][QueryNext]_vars

\* C23: query_json never raises; a transport failure, or a response text
\* without any JSON object in it, gives success = false, data null and an
\* error string; success = true comes with a null error and with the parsed
\* JSON object as data.
C23_QueryJsonContract ==
    q_applied
        => /\ q_response # QueryRaised
           /\ \/ q_chat = "raise"
              \/ \A i \in 1..Len(q_content) : q_content[i] # "{"
              => /\ q_response.success = FALSE
                 /\ q_response.data = NoneVal
                 /\ q_response.error # NoneVal
           /\ q_response.success = TRUE
                 => /\ q_response.error = NoneVal
                    /\ q_response.data \in {JsonObject({}), JsonObject({JsonMember})}

\* What does hold of query_json: it returns a response; a failure has null
\* data and an error string, a success a null error; and data other than a
\* JSON object comes only from a fenced text.
QueryJsonReturns ==
    q_applied
        => /\ q_response # QueryRaised
           /\ q_chat = "raise" => q_response.success = FALSE
           /\ q_response.success = FALSE
                 => q_response.data = NoneVal /\ q_response.error # NoneVal
           /\ q_response.success = TRUE
                 => /\ q_response.error = NoneVal
                    /\ \/ q_response.data \in {JsonObject({}), JsonObject({JsonMember})}
                       \/ /\ q_response.data \in {JsonArray, NoneVal}
                          /\ \/ FencedGroup(q_content, FenceJson) # NoMatch
                             \/ FencedGroup(q_content, Fence) # NoMatch


\* ------------------------------------------------------------------------
\* Privacy-policy discovery: find_privacy_policy and its worker
\* ------------------------------------------------------------------------

\* The most links the entry page has.
MaxPolicyLinks == 2

\* Scores in hundredths: 0.95 is 95, 0.3 is 30.
HeuristicConfidence == 95
KeywordBonus == 30

\* The links _extract_all_internal_links can return for the entry page.
PolicyLinkUniverse ==
    { Link(<<OriginA, "/", "privacy">>, <<"Privacy">>),
      Link(<<OriginA, "/", "legal">>, <<"privacy", " ", "notice">>),
      Link(<<OriginSub, "/", "privacy">>, <<"Privacy">>),
      Link(<<OriginA, "/", "about">>, <<"about">>) }

\* The extraction returns no href twice.
PolicyLinkLists ==
    { l \in UNION { [1..n -> PolicyLinkUniverse] : n \in 0..MaxPolicyLinks } :
        \A i, j \in 1..Len(l) : i # j => l[i].href # l[j].href }

\* filter_keywords: none, or the keywords of the configuration.
PolicyKeywordLists == { NoList, << <<"privacy">>, <<"legal">> >> }

\* What the classifier can put under privacy_policy_url: null, the empty
\* string, a link of the page, a part of one, a relative URL, or a URL of
\* its own.
PolicyChoices ==
    {NoneVal, <<>>, <<OriginA>>, <<"/", "privacy">>, ForeignUrl}
        \cup {l.href : l \in PolicyLinkUniverse}

\* What query_json gives: a response without success, data that is not a
\* dictionary, or a dictionary with the three keys.
PolicyAnswers ==
    { [kind |-> "failed", url |-> NoneVal], [kind |-> "not a dict", url |-> NoneVal] }
        \cup { [kind |-> "dict", url |-> u] : u \in PolicyChoices }

\* How the awaits of one call go: one of them raises, or the navigation
\* ends on another host, or on a subdomain, or on the entry page.
PolicyCourses ==
    { "new_page raises", "goto raises", "extract raises", "content raises",
      "query_json raises", "close raises", "redirected", "lookalike",
      "subdomain", "ok" }

PolicyEnvs ==
    [course : PolicyCourses, links : PolicyLinkLists, answer : PolicyAnswers,
     keyword_in_html : BOOLEAN]

\* page.url after the navigation.
PolicyLanded ==
    CASE p_env.course = "redirected" -> <<OriginEvil, "/">>
      [] p_env.course = "lookalike" -> <<OriginNotA, "/">>
      [] p_env.course = "subdomain" -> <<OriginSub, "/">>
      [] OTHER -> p_site_url

PolicyInit ==
    /\ RunIdle
    /\ CoordIdle
    /\ HeurIdle
    /\ ExtractIdle
    /\ QueryIdle
    /\ ScraperIdle
    /\ MainIdle
    /\ SitemapIdle
    /\ p_site_url \in { <<OriginA, "/">>, <<OriginWww, "/">> }
    /\ p_keywords \in PolicyKeywordLists
    /\ p_env \in PolicyEnvs
    /\ p_pc = "start"
    /\ p_page = "none"
    /\ p_candidates = <<>>
    /\ p_asked = FALSE
    /\ p_initial = NoPolicyOutput
    /\ p_result = NoPolicyOutput

\* The return of the except clause of find_privacy_policy.
CriticalError ==
    PolicyOutput(NoneVal, <<"Failed during privacy policy search: ", "e">>,
                 NoKey, NoKey)

\* The return of the except clause of _analyze_page_for_policy.
FailedToAnalyze ==
    PolicyOutput(NoneVal, <<"Failed to analyze page ", "url", ": ", "e">>, 0, 0)

\* The return of the external redirect check.
Redirected ==
    PolicyOutput(NoneVal, <<"Redirected to external domain ", "page.url">>, 0, 0)

\* _extract_policy_url_from_html: response.data, or the dictionary made of
\* a response without success.
extract_policy_url_from_html(answer) ==
    IF answer.kind = "failed"
    THEN PolicyOutput(NoneVal, <<"response.error">>, 0, NoKey)
    ELSE PolicyOutput(answer.url, <<"reasoning of the classifier">>, 80, NoKey)

\* Step 4 of _analyze_page_for_policy: the classifier's choice stands if it
\* is contained in the href of a candidate, else the scorer's winner
\* replaces it; nothing is done when there is no candidate or no choice.
validate_policy_choice(policy_output, promising_links_objects, user_keywords) ==
    LET llm_url == policy_output.privacy_policy_url
        choice_valid ==
            \E i \in 1..Len(promising_links_objects) : IsSubstr(llm_url, promising_links_objects[i].href)
        heuristic_url == get_best_candidate(promising_links_objects, user_keywords)
    IN  IF promising_links_objects # <<>> /\ Truthy(llm_url)
             /\ ~choice_valid
             /\ Truthy(heuristic_url)
        THEN [policy_output EXCEPT
                 !.privacy_policy_url = heuristic_url,
                 !.reasoning = <<"LLM choice overridden by heuristic">>,
                 !.confidence_score = HeuristicConfidence]
        ELSE policy_output

\* Steps 5 and 6: the keyword bonus, and the URL made absolute.
finish_policy_output(policy_output, url, user_keywords, keyword_in_html) ==
    LET found_url == policy_output.privacy_policy_url
    IN  [policy_output EXCEPT
            !.keyword_bonus =
                IF user_keywords \notin {<<>>, NoList} /\ keyword_in_html
                THEN KeywordBonus ELSE 0,
            !.privacy_policy_url =
                IF Truthy(found_url) THEN urljoin(url, found_url) ELSE found_url]

\* The worker returns r; its finally clause runs next.
PolicyWorkerReturn(r) ==
    /\ p_initial' = r
    /\ p_pc' = "close"

\* initial_page = await context.new_page()
PolicyNewPage ==
    /\ p_pc = "start"
    /\ IF p_env.course = "new_page raises"
       THEN /\ p_result' = CriticalError
            /\ p_pc' = "done"
            /\ UNCHANGED p_page
       ELSE /\ p_page' = "open"
            /\ p_pc' = "goto"
            /\ UNCHANGED p_result
    /\ UNCHANGED <<not_policy, p_site_url, p_keywords, p_env, p_candidates,
                   p_asked, p_initial>>

\* await page.goto(url, ...): the new page is not at url yet.
PolicyGoto ==
    /\ p_pc = "goto"
    /\ IF p_env.course = "goto raises"
       THEN PolicyWorkerReturn(FailedToAnalyze)
       ELSE p_pc' = "extract" /\ UNCHANGED p_initial
    /\ UNCHANGED <<not_policy, p_site_url, p_keywords, p_env, p_page,
                   p_candidates, p_asked, p_result>>

\* Steps 1 and 2 and the external redirect check.
PolicyExtract ==
    /\ p_pc = "extract"
    /\ IF p_env.course \in {"extract raises", "content raises"}
       THEN PolicyWorkerReturn(FailedToAnalyze) /\ UNCHANGED p_candidates
       ELSE /\ p_candidates' = filter_promising_links(p_env.links, p_keywords)
            /\ IF ~IsInternal(PolicyLanded, RootDomain(p_site_url))
               THEN PolicyWorkerReturn(Redirected)
               ELSE p_pc' = "ask" /\ UNCHANGED p_initial
    /\ UNCHANGED <<not_policy, p_site_url, p_keywords, p_env, p_page, p_asked,
                   p_result>>

\* Steps 3 to 6.
PolicyAsk ==
    /\ p_pc = "ask"
    /\ p_asked' = TRUE
    /\ IF p_env.course = "query_json raises" \/ p_env.answer.kind = "not a dict"
       THEN PolicyWorkerReturn(FailedToAnalyze)
       ELSE PolicyWorkerReturn(
                finish_policy_output(
                    validate_policy_choice(
                        extract_policy_url_from_html(p_env.answer),
                        p_candidates, p_keywords),
                    p_site_url, p_keywords, p_env.keyword_in_html))
    /\ UNCHANGED <<not_policy, p_site_url, p_keywords, p_env, p_page,
                   p_candidates, p_result>>

\* finally: if page: await page.close()
PolicyClose ==
    /\ p_pc = "close"
    /\ IF p_env.course = "close raises"
       THEN /\ p_result' = CriticalError
            /\ p_pc' = "done"
            /\ UNCHANGED p_page
       ELSE /\ p_page' = "closed"
            /\ p_pc' = "select"
            /\ UNCHANGED p_result
    /\ UNCHANGED <<not_policy, p_site_url, p_keywords, p_env, p_candidates,
                   p_asked, p_initial>>

\* The final selection: the best of found_policies, which holds the initial
\* result if it has a URL, else the initial result.
PolicySelect ==
    /\ p_pc = "select"
    /\ LET found_policies ==
               IF Truthy(p_initial.privacy_policy_url) THEN <<p_initial>>
               ELSE <<>>
       IN  p_result' = IF found_policies # <<>> THEN found_policies[1]
                       ELSE p_initial
    /\ p_pc' = "done"
    /\ UNCHANGED <<not_policy, p_site_url, p_keywords, p_env, p_page,
                   p_candidates, p_asked, p_initial>>

PolicyNext ==
    \/ PolicyNewPage
    \/ PolicyGoto
    \/ PolicyExtract
    \/ PolicyAsk
    \/ PolicyClose
    \/ PolicySelect

PolicySpec == PolicyInit /\ [][PolicyNext]_vars

\* C24: privacy-policy discovery returns a URL (a string that is not empty)
\* only if it is the href of a candidate, that is, of a link of the entry page that passed the keyword
\* filter; with no candidate it returns no URL.
C24_PolicyUrlIsCandidate ==
    p_pc = "done" /\ Truthy(p_result.privacy_policy_url)
        => p_result.privacy_policy_url \in Hrefs(p_candidates)

\* What does hold: a URL returned is the href of a candidate, or it is the
\* classifier's choice made absolute, which was taken without a test when
\* there was no candidate, and on being contained in a candidate's href
\* otherwise.
PolicyUrlOrigin ==
    p_pc = "done" /\ Truthy(p_result.privacy_policy_url)
        => \/ p_result.privacy_policy_url \in Hrefs(p_candidates)
           \/ /\ p_asked
              /\ p_env.answer.kind = "dict"
              /\ p_result.privacy_policy_url = urljoin(p_site_url, p_env.answer.url)
              /\ \/ p_candidates = <<>>
                 \/ \E i \in 1..Len(p_candidates) :
                       IsSubstr(p_env.answer.url, p_candidates[i].href)

\* C25: with candidates and a null choice of the classifier, or a failed
\* classifier call, the scorer's winner among the candidates is the URL
\* returned.
C25_NullChoiceUsesScorer ==
    /\ p_pc = "done"
    /\ p_result # CriticalError
    /\ p_asked
    /\ p_candidates # <<>>
    /\ \/ p_env.answer.kind = "failed"
       \/ p_env.answer.kind = "dict" /\ p_env.answer.url = NoneVal
    /\ p_env.course # "query_json raises"
    => /\ get_best_candidate(p_candidates, p_keywords) # NoneVal
       /\ p_result.privacy_policy_url = get_best_candidate(p_candidates, p_keywords)

\* What does hold: the scorer's winner is returned when the classifier names
\* a URL that no candidate's href contains.
PolicyScorerOnInvalidChoice ==
    /\ p_pc = "done"
    /\ p_result # CriticalError
    /\ p_asked
    /\ p_candidates # <<>>
    /\ p_env.course # "query_json raises"
    /\ p_env.answer.kind = "dict"
    => IF Truthy(p_env.answer.url)
          /\ \A i \in 1..Len(p_candidates) :
                ~IsSubstr(p_env.answer.url, p_candidates[i].href)
       THEN p_result.privacy_policy_url = get_best_candidate(p_candidates, p_keywords)
       ELSE p_result.privacy_policy_url
               = IF Truthy(p_env.answer.url)
                 THEN urljoin(p_site_url, p_env.answer.url)
                 ELSE p_env.answer.url


\* The navigation of the entry page was made.
PolicyNavigated == p_env.course \notin {"new_page raises", "goto raises"}

MaxHrefs == 3

\* The positions of the dots of a netloc.
Dots(netloc) == {i \in 1..Len(netloc) : netloc[i] = "."}

\* '.'.join(domain_parts[-2:]) if len(domain_parts) > 2 else netloc: with
\* more than one dot, what follows the last dot but one.
MainDomain(page_url) ==
    LET netloc == Netloc(page_url)
        dots == Dots(netloc)
    IN  IF Cardinality(dots) + 1 > 2
        THEN LET last == CHOOSE i \in dots : \A j \in dots : j <= i
                 before == CHOOSE i \in dots \ {last} :
                              \A j \in dots \ {last} : j <= i
             IN  SubSeq(netloc, before + 1, Len(netloc))
        ELSE netloc

\* The endings of the endswith test of extract_links.
ScraperAssetExtensions ==
    {".js", ".css", ".png", ".jpg", ".jpeg", ".gif", ".pdf", ".svg"}

\* The two tests a resolved URL passes to be added to links.
ScraperKeeps(full_url, main_domain) ==
    /\ EndsWith(Netloc(full_url), main_domain)
    /\ ~HasFragment(full_url)
    /\ full_url # <<>>
    /\ LowerAtom(full_url[Len(full_url)]) \notin ScraperAssetExtensions

\* extract_links(page, page_url), given what page.content() holds.
extract_links(page_url, content, base, hrefs) ==
    IF content = "raise" THEN {}
    ELSE LET base_url == IF base # NoneVal THEN urljoin(page_url, base)
                         ELSE page_url
             main_domain == MainDomain(page_url)
         IN  { urljoin(base_url, hrefs[i]) :
                 i \in {k \in 1..Len(hrefs) :
                          /\ hrefs[k] # <<>>
                          /\ ScraperKeeps(urljoin(base_url, hrefs[k]), main_domain)} }

\* The href attributes a page can carry.
ScraperHrefUniverse ==
    { <<>>,
      <<"/", "cookie">>,
      <<OriginSub, "/", "cookie">>,
      <<OriginNotA, "/", "privacy">>,
      <<OriginEvil, "/", "fake">>,
      <<"/", "doc", ".PDF">>,
      <<"#", "top">>,
      <<"mailto:", "x">> }

ScraperHrefLists == UNION { [1..n -> ScraperHrefUniverse] : n \in 0..MaxHrefs }

\* The href of the <base> tag: no tag, another site, or a directory.
ScraperBases == { NoneVal, <<OriginEvil, "/">>, <<"/", "docs", "/">> }

ScraperInit ==
    /\ RunIdle
    /\ CoordIdle
    /\ HeurIdle
    /\ ExtractIdle
    /\ QueryIdle
    /\ PolicyIdle
    /\ MainIdle
    /\ SitemapIdle
    /\ s_page_url \in ExtractPageUrls
    /\ s_content \in {"ok", "raise"}
    /\ s_base \in ScraperBases
    /\ s_hrefs \in ScraperHrefLists
    /\ s_links = {}
    /\ s_applied = FALSE

\* links = await extract_links(page, page_url)
ApplyScraper ==
    /\ ~s_applied
    /\ s_applied' = TRUE
    /\ s_links' = extract_links(s_page_url, s_content, s_base, s_hrefs)
    /\ UNCHANGED <<not_scraper, s_page_url, s_content, s_base, s_hrefs>>

ScraperNext == ApplyScraper

ScraperSpec == ScraperInit /\ [][ScraperNext]_vars

\* C26: every link extract_links returns is internal: its host is the main
\* domain of the page, or a subdomain of it, the main domain preceded by a
\* dot.
C26_ScraperLinksInternal ==
    s_applied => \A link \in s_links : HostWithin(link, MainDomain(s_page_url))

\* What does hold: the host of every link returned ends with the characters
\* of the main domain.
ScraperLinksEndWithMainDomain ==
    s_applied
        => \A link \in s_links : EndsWith(Netloc(link), MainDomain(s_page_url))


\* ------------------------------------------------------------------------
\* Termination and the frame of one run
\* ------------------------------------------------------------------------

\* A run whose awaits all return or raise goes on until it has returned.
FairSpec == Spec /\ WF_vars(Next)

\* The classifier calls of a kind made so far.
CallsOfKind(k) == {i \in 1..Len(calls) : calls[i].kind = k}

\* The pages the run has opened.
PagesOpened == {p \in {"seed", "validation"} :
                   IF p = "seed" THEN page # "none" ELSE validation_page # "none"}

\* No more than two pages opened and navigated, no more than three
\* classifier calls, of which two embedded checks and one link selection.
RunWithinBounds ==
    /\ Cardinality(PagesOpened) <= 2
    /\ Len(navigated) <= 2
    /\ Len(calls) <= 3
    /\ Cardinality(CallsOfKind("embedded")) <= 2
    /\ Cardinality(CallsOfKind("select")) <= 1

\* A step enters a statement only if the run has not been at it before.
NoReentry == pc' # pc => pc' \notin visited

\* The result is delivered in the step that ends the run, and only then.
ResultOnce == result' # result => pc # "done" /\ pc' = "done" /\ result = NoResult

FellBack == Done /\ Embedded /\ ~Validated

\* C28: stage1_result, once recorded, is never assigned again; and a run
\* that falls back returns the seed URL with the reasoning, and the summary
\* where the target has one, of the Stage 1 verdict.
C28_Stage1ResultKept ==
    /\ [][stage1_result # NoResult => stage1_result' = stage1_result]_vars
    /\ [](FellBack
            => /\ result.url = privacy_policy_url
               /\ result.reasoning = [tag |-> "llm", arg |-> resp.stage1.reasoning]
               /\ result.summary = IF HasSummary(target) THEN resp.stage1.summary
                                   ELSE NoKey)

\* A run that fell back after the Stage 3 classifier gave a verdict of its
\* own against the candidate page, for a target that has a summary.
C28_Witness ==
    /\ FellBack
    /\ HasSummary(target)
    /\ resp.stage3.kind = "resp"
    /\ resp.stage3.success
    /\ resp.stage3.reasoning # resp.stage1.reasoning
    /\ result.summary = resp.stage1.summary


\* C29: a run returns the seed URL only as the embedded result, after the
\* Stage 1 check of the seed page succeeded; a result that Stage 3 produced
\* names another page than the seed page.
C29_SeedUrlOnlyEmbedded ==
    Done /\ Truthy(privacy_policy_url)
        => /\ result.url = privacy_policy_url => Stage1Found
           /\ Validated => result.url # privacy_policy_url

\* What does hold: the seed URL is returned after a successful Stage 1
\* check, or as the candidate page that Stage 3 validated.
SeedUrlEmbeddedOrValidated ==
    Done /\ Truthy(privacy_policy_url) /\ result.url = privacy_policy_url
        => \/ Stage1Found /\ result = stage1_result
           \/ Validated /\ full_candidate_url = privacy_policy_url


\* ------------------------------------------------------------------------
\* What the concurrent runs write
\* ------------------------------------------------------------------------

\* The entries of the dump folder that task t wrote.
FilesOf(t) == {e \in dump_folder : e[2] = t}

\* A step of a task, between the fan-out and the join.
TaskStepOf(t) ==
    /\ site_analysis.status = "fanout"
    /\ site_analysis'.status = "fanout"
    /\ tasks'[t] # tasks[t]

\* C30: the four concurrent runs write no common state: no file of the dump
\* folder has two writers, and a step of one run leaves the other runs'
\* locals, pages and files as they are.
C30_RunsWriteNothingShared ==
    /\ [](\A e, f \in dump_folder : e[1] = f[1] => e[2] = f[2])
    /\ [][\A t \in Targets :
            TaskStepOf(t)
               => \A u \in Targets \ {t} :
                     /\ tasks'[u] = tasks[u]
                     /\ open_pages' \cap PagesOf(u) = open_pages \cap PagesOf(u)
                     /\ FilesOf(u)' = FilesOf(u)]_vars

\* The four runs have ended and each has written its two snapshot files.
C30_Witness ==
    /\ \A t \in Targets : tasks[t].pc = "done" /\ Cardinality(FilesOf(t)) = 2
    /\ Cardinality({e[1] : e \in dump_folder}) = 8


\* ------------------------------------------------------------------------
\* The summary of a validated page, and Stage 1 on a seed page without text
\* ------------------------------------------------------------------------

\* The run returned the candidate page that Stage 3 validated.
ReturnedValidated == Done /\ Validated /\ result.url = full_candidate_url

\* C33: when a run for data retention, data deletion or DPO contact returns
\* a page that Stage 3 validated, the summary of the result is the one of the
\* Stage 3 verdict on that candidate page, never the one Stage 1 took from
\* the seed page.
C33_ValidatedSummaryIsStage3 ==
    Done /\ Validated /\ HasSummary(target)
        => /\ result.url = full_candidate_url
           /\ result.summary = resp.stage3.summary
           /\ result.summary # resp.stage1.summary

\* A validated page was returned although Stage 1 had recorded a result with
\* a summary of its own.
C33_Witness ==
    /\ ReturnedValidated
    /\ HasSummary(target)
    /\ Embedded
    /\ stage1_result.summary = resp.stage1.summary
    /\ Truthy(resp.stage1.summary)
    /\ result.summary = resp.stage3.summary

\* The seed page's text was read and is empty.
SeedTextEmpty == "seed_text" \in visited /\ page_content = <<>>

\* C34: if the seed page has no text, Stage 1 makes no classifier call and
\* records no stage1_result, and the run goes on to Stage 2 with the candidate
\* links of the seed page; the embedded-content question is never put on an
\* empty text, in Stage 1 or in Stage 3.
C34_EmptySeedSkipsStage1 ==
    /\ [](SeedTextEmpty
            => /\ resp.stage1.kind = "none"
               /\ stage1_result = NoResult
               /\ "stage1_ask" \notin visited
               /\ "stage2" \in visited)
    /\ [][pc = "seed_text" /\ page_content' = <<>>
            => pc' = "stage2" /\ UNCHANGED <<promising, stage1_result, calls>>]_vars
    /\ [](/\ resp.stage1.kind # "none" => Truthy(page_content)
          /\ resp.stage3.kind # "none" => Truthy(validation_content)
          /\ Cardinality(CallsOfKind("embedded"))
                = (IF resp.stage1.kind # "none" THEN 1 ELSE 0)
                  + (IF resp.stage3.kind # "none" THEN 1 ELSE 0))

\* The seed page had no text and candidate links, and the run went through
\* Stage 2 and put the Stage 3 question on the candidate it selected.
C34_Witness ==
    /\ SeedTextEmpty
    /\ Done
    /\ promising # <<>>
    /\ SelectCalled
    /\ Stage3Asked
    /\ Cardinality(CallsOfKind("embedded")) = 1

\* ------------------------------------------------------------------------
\* main_async (main.py): the sequential pipeline over the input's sites
\* ------------------------------------------------------------------------

\* The longest input modelled.
MaxSites == 2

\* scenarios (line 33), in the order the inner loop takes them.
Scenarios == <<"accept", "reject">>

\* The website_url values of the input's rows: one without a scheme.
SiteUrls == {<<"a.com">>, <<OriginWww>>}

\* The inputs: one to MaxSites rows.
SiteLists ==
    UNION {[1..n -> SiteUrls] : n \in 1..MaxSites}

\* Lines 30-31: a site without http:// or https:// gets https:// in front.
with_scheme(website_url) ==
    IF website_url[1] \in Origins THEN website_url
    ELSE IF website_url[1] = "a.com" THEN <<OriginA>> \o Tail(website_url)
    ELSE <<"https://">> \o website_url

\* What browser.new_page() raises when it fails.
BrowserError == <<"browser.new_page failed">>

\* What an await of lines 41-70 raises when it fails: the navigation, the
\* banner handling, the wait, the cookies, the page's HTML.
PageError == <<"page operation failed">>

\* What line 72 raises: main.py calls simple_extractor, a name that none of
\* its imports (lines 1-13) binds; the function is defined in
\* extractor_playwright.py only.
NameError == <<"name 'simple_extractor' is not defined">>

\* The record of the outer except clause (lines 166-182).
FailureRecord(website_url, scenario, e) ==
    [website_url |-> website_url,
     scenario |-> scenario,
     privacy_policy_url |-> <<"N/A">>,
     llm_found |-> FALSE,
     llm_reasoning |-> <<"Failed to process: ">> \o e,
     dpo_contact_info |-> <<"N/A">>,
     dpo_found |-> FALSE,
     dpo_reasoning |-> <<"Failed to process: ">> \o e]

\* site_url of the row being processed (lines 28-31).
site_url == with_scheme(m_sites[m_index])

main_async_starts ==
    /\ m_sites \in SiteLists
    /\ m_index = 1
    /\ m_scenario = 1
    /\ m_pc = "new_page"
    /\ m_open = {}
    /\ m_left_open = 0
    /\ m_error = NoneVal
    /\ m_results = <<>>

MainInit ==
    /\ RunIdle
    /\ CoordIdle
    /\ HeurIdle
    /\ ExtractIdle
    /\ QueryIdle
    /\ PolicyIdle
    /\ ScraperIdle
    /\ SitemapIdle
    /\ main_async_starts

\* The end of one pass of the inner loop: the record is in the list, the
\* pages still open stay open in the browser, the next scenario or the next
\* row follows, and after the last row the browser is closed.
MainLoopOn(record) ==
    /\ m_results' = Append(m_results, record)
    /\ m_left_open' = m_left_open + Cardinality(m_open)
    /\ m_open' = {}
    /\ m_error' = NoneVal
    /\ IF m_scenario < Len(Scenarios)
       THEN /\ m_scenario' = m_scenario + 1
            /\ m_pc' = "new_page"
            /\ UNCHANGED m_index
       ELSE IF m_index < Len(m_sites)
       THEN /\ m_index' = m_index + 1
            /\ m_scenario' = 1
            /\ m_pc' = "new_page"
       ELSE /\ m_pc' = "browser_close"
            /\ UNCHANGED <<m_index, m_scenario>>
    /\ UNCHANGED m_sites

\* Line 38: browser.new_page() returns the entry page or raises.
MainNewPage ==
    /\ m_pc = "new_page"
    /\ \E ok \in BOOLEAN :
         /\ m_open' = IF ok THEN {"page"} ELSE m_open
         /\ m_error' = IF ok THEN m_error ELSE BrowserError
         /\ m_pc' = IF ok THEN "fetch" ELSE "except"
    /\ UNCHANGED <<m_sites, m_index, m_scenario, m_left_open, m_results>>
    /\ UNCHANGED not_main

\* Lines 41-70: the entry page is loaded, the banner handled, the cookies read
\* and categorised, the third-party cookies counted and the HTML read; any of
\* the awaits may raise.
MainFetch ==
    /\ m_pc = "fetch"
    /\ \E ok \in BOOLEAN :
         /\ m_error' = IF ok THEN m_error ELSE PageError
         /\ m_pc' = IF ok THEN "simple_extractor" ELSE "except"
    /\ UNCHANGED <<m_sites, m_index, m_scenario, m_open, m_left_open,
                   m_results>>
    /\ UNCHANGED not_main

\* Line 72: the call of the unbound name simple_extractor raises NameError,
\* so the statements after it (lines 74-162) are never reached.
MainSimpleExtractor ==
    /\ m_pc = "simple_extractor"
    /\ m_error' = NameError
    /\ m_pc' = "except"
    /\ UNCHANGED <<m_sites, m_index, m_scenario, m_open, m_left_open,
                   m_results>>
    /\ UNCHANGED not_main

\* The variant of the outer except clause that lets the exception go.
MainExceptAborts ==
    /\ m_pc = "except"
    /\ m_pc' = "done"
    /\ UNCHANGED <<m_sites, m_index, m_scenario, m_open, m_left_open,
                   m_error, m_results>>
    /\ UNCHANGED not_main

\* Lines 164-182: the outer except clause appends the failure record and the
\* loop goes on.
MainExcept ==
    /\ m_pc = "except"
    /\ MainLoopOn(FailureRecord(site_url, Scenarios[m_scenario], m_error))
    /\ UNCHANGED not_main

\* Lines 184-190: browser.close() closes whatever is open, and the results
\* are written.
MainBrowserClose ==
    /\ m_pc = "browser_close"
    /\ m_pc' = "done"
    /\ m_left_open' = 0
    /\ UNCHANGED <<m_sites, m_index, m_scenario, m_open, m_error, m_results>>
    /\ UNCHANGED not_main

MainNext ==
    \/ MainNewPage
    \/ MainFetch
    \/ MainSimpleExtractor
    \/ MainExcept
    \/ MainBrowserClose

MainSpec == MainInit /\ [][MainNext]_vars

\* The rows and scenarios whose record is in the results list, in the order
\* of the two loops: the k-th record belongs to row (k+1) \div 2 and to the
\* scenario accept when k is odd, reject when k is even.
RecordsInInputOrder ==
    \A k \in 1..Len(m_results) :
        /\ m_results[k].website_url = with_scheme(m_sites[(k + 1) \div 2])
        /\ m_results[k].scenario = Scenarios[((k - 1) % 2) + 1]

\* One record for every pair that has been processed, none for the others.
OneRecordPerPair ==
    IF m_pc \in {"browser_close", "done"}
    THEN Len(m_results) = Len(Scenarios) * Len(m_sites)
    ELSE Len(m_results) = Len(Scenarios) * (m_index - 1) + (m_scenario - 1)

\* An exception of the outer try appends the failure record of the pair
\* being processed, and the loops go on with the next pair or end normally.
FailureIsRecorded ==
    [][m_pc = "except" =>
         /\ m_results' =
              Append(m_results,
                     FailureRecord(site_url, Scenarios[m_scenario], m_error))
         /\ m_pc' \in {"new_page", "browser_close"}]_vars

\* C31: in main_async every (site, scenario) of the input gets exactly one
\* record, in input order with accept before reject; an exception while one
\* pair is processed gives that pair a failure record and the processing goes
\* on with the next scenario and the next site.
C31_OneRecordPerPairInOrder ==
    /\ [](RecordsInInputOrder /\ OneRecordPerPair)
    /\ FailureIsRecorded

\* Two sites were processed to the end; the first pair failed before it had a
\* page, the pairs after it failed on the page and at line 72.
C31_Witness ==
    /\ m_pc = "done"
    /\ Len(m_sites) = 2
    /\ Len(m_results) = 4
    /\ m_results[1].llm_reasoning = <<"Failed to process: ">> \o BrowserError
    /\ m_results[2].llm_reasoning = <<"Failed to process: ">> \o NameError
    /\ m_results[3].llm_reasoning = <<"Failed to process: ">> \o PageError
    /\ m_results[4].website_url = <<OriginWww>>

\* C32: in main_async every page opened while a (site, scenario) is processed
\* has been closed by the time the pair's record is appended, on the success
\* path and on every exception path: no page of a pair whose record is in the
\* list is still open.
C32_PagesClosedAtAppend ==
    m_left_open = 0

\* A page is closed by browser.close() at the latest: after the last pair
\* nothing is open.
PagesClosedWithBrowser ==
    m_pc = "done" => m_left_open = 0 /\ m_open = {}


\* ------------------------------------------------------------------------
\* get_sitemap_urls (utils/sitemap_parser.py)
\* ------------------------------------------------------------------------

\* The most <loc> elements in one modelled sitemap, and the most lines in a
\* modelled robots.txt.
MaxLocs == 2

\* urljoin(base_url, "/robots.txt") and urljoin(base_url, "/sitemap.xml")
RobotsUrl == <<OriginA, "/", "robots.txt">>
DefaultSitemapUrl == <<OriginA, "/", "sitemap", ".xml">>

\* Another sitemap of the site, and one of its pages.
OtherSitemapUrl == <<OriginA, "/", "index", ".xml">>
PageUrl == <<OriginA, "/", "page">>

\* The sitemap files the modelled site may serve.
SitemapFiles == {DefaultSitemapUrl, OtherSitemapUrl}

\* What a <loc> element may hold: either sitemap file, or a page.
LocUniverse == SitemapFiles \cup {PageUrl}

LocLists == UNION {[1..n -> LocUniverse] : n \in 0..MaxLocs}

\* What fetching a sitemap file gives: None (a failed request or an error
\* status), a text that is no XML, a sitemap index or a URL set, each with
\* the text of its <loc> elements.
SitemapContents ==
    {NoneVal, <<"not XML">>}
        \cup {<<kind, locs>> : kind \in {"sitemapindex", "urlset"}, locs \in LocLists}

\* The lines of a modelled robots.txt: a field name and its value.
RobotsLine(field, value) == [field |-> field, value |-> value]

RobotsLineUniverse ==
    {RobotsLine("Sitemap", OtherSitemapUrl),
     RobotsLine("sitemap", DefaultSitemapUrl),
     RobotsLine("Disallow", <<"/">>)}

\* What fetching robots.txt gives: None (a failed request or an error
\* status), or a text of up to MaxLocs lines, which may be empty.
NoRobots == [fetched |-> FALSE, lines |-> <<>>]

RobotsContents ==
    {NoRobots}
        \cup {[fetched |-> TRUE, lines |-> l] :
                 l \in UNION {[1..n -> RobotsLineUniverse] : n \in 0..MaxLocs}}

\* Lines 75-80: the values of the lines that start with "sitemap:" whatever
\* the case, in the order of the file; nothing for a robots.txt that could
\* not be fetched or is empty.
RECURSIVE sitemap_lines(_)
sitemap_lines(lines) ==
    IF lines = <<>> THEN <<>>
    ELSE LET line == Head(lines)
             rest == sitemap_lines(Tail(lines))
         IN  IF Lower(<<line.field>>) = <<"sitemap">>
             THEN <<Strip(line.value)>> \o rest
             ELSE rest

robots_sitemaps(robots_content) ==
    IF ~robots_content.fetched THEN <<>> ELSE sitemap_lines(robots_content.lines)

\* _parse_sitemap_xml: the nested sitemaps of an index that are not in
\* visited_sitemaps, the URLs of a URL set, nothing for a text that is no XML.
parse_sitemap_xml(xml_content, visited_set) ==
    IF xml_content = <<"not XML">> THEN <<>>
    ELSE IF xml_content[1] = "sitemapindex"
    THEN SelectSeq(xml_content[2], LAMBDA loc : loc \notin visited_set)
    ELSE xml_content[2]

\* Lines 106-109: the parsed items that end in ".xml" and are not in
\* visited_sitemaps, in their order.
NestedSitemaps(parsed_items, visited_set) ==
    SelectSeq(parsed_items,
              LAMBDA item : EndsWith(item, <<".xml">>) /\ item \notin visited_set)

\* Lines 110-111: the parsed items that do not end in ".xml".
PageItems(parsed_items) ==
    {parsed_items[i] : i \in {j \in 1..Len(parsed_items) :
                                 ~EndsWith(parsed_items[j], <<".xml">>)}}

get_sitemap_urls_starts ==
    /\ sm_robots \in RobotsContents
    /\ sm_web \in [SitemapFiles -> SitemapContents]
    /\ sm_pc = "robots"
    /\ sitemap_urls_to_process = <<>>
    /\ visited_sitemaps = {}
    /\ sm_fetched = <<>>
    /\ sm_default = FALSE
    /\ final_urls = {}

SitemapInit ==
    /\ RunIdle
    /\ CoordIdle
    /\ HeurIdle
    /\ ExtractIdle
    /\ QueryIdle
    /\ PolicyIdle
    /\ ScraperIdle
    /\ MainIdle
    /\ get_sitemap_urls_starts

\* Lines 67-90: robots.txt is fetched, its sitemap lines are queued, and the
\* default location is queued when there is none.
SitemapRobots ==
    /\ sm_pc = "robots"
    /\ sm_fetched' = Append(sm_fetched, RobotsUrl)
    /\ LET named == robots_sitemaps(sm_robots)
       IN  /\ sitemap_urls_to_process' =
                IF named = <<>> THEN <<DefaultSitemapUrl>> ELSE named
           /\ sm_default' = (named = <<>>)
    /\ sm_pc' = "loop"
    /\ UNCHANGED <<sm_robots, sm_web, visited_sitemaps, final_urls>>
    /\ UNCHANGED not_sitemap

\* Lines 93-95: the head of the queue was processed before and is dropped.
SitemapSkip ==
    /\ sm_pc = "loop"
    /\ sitemap_urls_to_process # <<>>
    /\ Head(sitemap_urls_to_process) \in visited_sitemaps
    /\ sitemap_urls_to_process' = Tail(sitemap_urls_to_process)
    /\ UNCHANGED <<sm_robots, sm_web, sm_pc, visited_sitemaps, sm_fetched,
                   sm_default, final_urls>>
    /\ UNCHANGED not_sitemap

\* The body of the loop for the head of the queue (lines 97-111): it is
\* marked as visited and fetched, its nested sitemaps are queued and its
\* pages collected.
SitemapFetchHead ==
    LET sitemap_url == Head(sitemap_urls_to_process)
        visited_set == visited_sitemaps \cup {sitemap_url}
        sitemap_content == sm_web[sitemap_url]
        parsed_items == IF sitemap_content = NoneVal THEN <<>>
                        ELSE parse_sitemap_xml(sitemap_content, visited_set)
    IN  /\ visited_sitemaps' = visited_set
        /\ sm_fetched' = Append(sm_fetched, sitemap_url)
        /\ sitemap_urls_to_process' =
             Tail(sitemap_urls_to_process) \o NestedSitemaps(parsed_items, visited_set)
        /\ final_urls' = final_urls \cup PageItems(parsed_items)
        /\ UNCHANGED <<sm_robots, sm_web, sm_pc, sm_default>>
        /\ UNCHANGED not_sitemap

\* Variant of SitemapProcess without the test of line 94: the head of the
\* queue is processed whether or not it was visited.
SitemapProcessAgain ==
    /\ sm_pc = "loop"
    /\ sitemap_urls_to_process # <<>>
    /\ SitemapFetchHead

\* Lines 93-111 for a head of the queue that was not visited.
SitemapProcess ==
    /\ sm_pc = "loop"
    /\ sitemap_urls_to_process # <<>>
    /\ Head(sitemap_urls_to_process) \notin visited_sitemaps
    /\ SitemapFetchHead

\* Lines 92 and 113-114: the queue is empty and the URLs are returned.
SitemapReturn ==
    /\ sm_pc = "loop"
    /\ sitemap_urls_to_process = <<>>
    /\ sm_pc' = "done"
    /\ UNCHANGED <<sm_robots, sm_web, sitemap_urls_to_process, visited_sitemaps,
                   sm_fetched, sm_default, final_urls>>
    /\ UNCHANGED not_sitemap

SitemapNext ==
    \/ SitemapRobots
    \/ SitemapSkip
    \/ SitemapProcess
    \/ SitemapReturn

SitemapSpec == SitemapInit /\ [][SitemapNext]_vars

\* Each await of the function returns: the requests have a timeout of ten
\* seconds (line 71).
FairSitemapSpec == SitemapSpec /\ WF_vars(SitemapNext)


\* No URL is requested twice.
FetchedOnce ==
    \A i, j \in 1..Len(sm_fetched) : i # j => sm_fetched[i] # sm_fetched[j]

\* robots.txt was fetched and has a line that names a sitemap.
RobotsNamesSitemap ==
    /\ sm_robots.fetched
    /\ \E i \in 1..Len(sm_robots.lines) :
          sm_robots.lines[i].field \in {"Sitemap", "sitemap"}

\* The default location was queued as the fallback of step 2.
DefaultTried == sm_default /\ sm_pc # "robots"

\* C38: get_sitemap_urls terminates for any finite set of sitemaps, sitemap
\* indexes that name themselves or each other included, and fetches each
\* sitemap URL at most once; the default /sitemap.xml is tried only when
\* robots.txt names no sitemap.
C38_SitemapsTerminateFetchedOnce ==
    /\ <>(sm_pc = "done")
    /\ [](FetchedOnce /\ Len(sm_fetched) <= 1 + Cardinality(SitemapFiles))
    /\ [](DefaultTried => ~RobotsNamesSitemap)
    /\ [](sm_pc # "robots" /\ ~RobotsNamesSitemap => DefaultTried)

\* robots.txt names the same index twice; the index names itself and the
\* default sitemap, which is an index that names both again: each of the two
\* was fetched once and the function returned.
C38_Witness ==
    /\ sm_pc = "done"
    /\ robots_sitemaps(sm_robots) = <<OtherSitemapUrl, OtherSitemapUrl>>
    /\ sm_web[OtherSitemapUrl] =
         <<"sitemapindex", <<OtherSitemapUrl, DefaultSitemapUrl>> >>
    /\ sm_web[DefaultSitemapUrl] =
         <<"sitemapindex", <<DefaultSitemapUrl, OtherSitemapUrl>> >>
    /\ sm_fetched = <<RobotsUrl, OtherSitemapUrl, DefaultSitemapUrl>>
    /\ ~sm_default

====
